---------------------------- MODULE Spec2Model ----------------------------
(***************************************************************************)
(* Model of the gemini-hubspot reconciliation scripts: identity            *)
(* resolution (Record ID matching), change detection and association       *)
(* diffing between a Definitive Healthcare extract and a HubSpot export.   *)
(*                                                                         *)
(* Text is a sequence of one-character strings.  A table cell is a record  *)
(* [k, n, s]: k = "nan" (missing), "int" (integer n), "float" (the float   *)
(* n.0) or "str" (the text s).  A table is a sequence of rows.             *)
(***************************************************************************)
EXTENDS Integers, Sequences, FiniteSets, TLC

VARIABLES
    pc,            \* position of the running script
    \* -- one field comparison of detect_changes_in_existing_records
    field,         \* the compared field name
    rawNew,        \* cell of the <field>_new column
    rawHub,        \* cell of the <field>_hubspot column
    normNew,       \* new_vals after normalization (text)
    normHub,       \* hubspot_vals after normalization (text)
    fieldChanged,  \* field_changes for this row
    \* -- create_import_files (facilities)
    formatted,     \* facilities_df: the formatted source rows with their Record ID
    hubspot,       \* hubspot_facilities: the rows of gemini/facilities.csv
    facilitiesNew, \* facilities_new
    facilitiesExisting, \* facilities_existing
    newFile,       \* rows written to facilities_new.csv
    updatesFile,   \* rows written to facilities_updates.csv
    \* -- match_record_ids / match_contact_record_ids
    facilities_df,      \* formatted facilities with their 'Record ID' column
    companies_df,       \* formatted companies with their 'Record ID' column
    contacts_df,        \* formatted contacts with their 'Record ID' column
    hubspot_facilities, \* rows of gemini/facilities.csv
    hubspot_companies,  \* rows of gemini/companies.csv
    hubspot_contacts,   \* rows of gemini/contacts.csv
    raised,             \* the exception that ended the script, "" if none
    \* -- association changes (Facility-Company)
    facility_company_df, \* desired associations with their Record ID columns
    current_df,          \* current associations read from the HubSpot export
    new_df,              \* desired associations formatted for the comparison
    add_df,              \* associations to add
    remove_df,           \* associations to remove
    \* -- the complete pipeline, run and run again
    run,                 \* which run of the pipeline this is
    \* -- process_association_changes of the complete pipeline, three types
    contact_facility_df, \* desired Contact-Facility associations
    contact_company_df,  \* desired Contact-Company associations
    association_changes, \* the add and remove tables of each processed type
    exportFound,         \* the gemini/*.csv files exist
    \* -- match_contact_record_ids of process_contacts.py, row by row
    dhcLookup,           \* the dict dhc_to_record_id as filled so far
    emailLookup,         \* the dict email_to_record_id as filled so far
    idx,                 \* rows of the running loop that are done
    \* -- extraction from definitive/MasterORG.csv
    master_df,           \* the rows of MasterORG.csv
    associations_df,     \* Facility-Company associations of process_associations.py
    associations_optimized, \* those of process_associations_optimized.py
    \* -- format_phone_number
    phone,               \* the value of an 'Organization phone' cell
    phoneOut,            \* what each copy of format_phone_number returns for it
    \* -- main of process_association_changes.py
    summary              \* the totals of the printed summary

normVars == <<field, rawNew, rawHub, normNew, normHub, fieldChanged>>
importVars == <<formatted, hubspot, facilitiesNew, facilitiesExisting, newFile, updatesFile>>
matchVars == <<facilities_df, companies_df, contacts_df,
               hubspot_facilities, hubspot_companies, hubspot_contacts, raised>>
assocVars == <<facility_company_df, current_df, new_df, add_df, remove_df>>
changeVars == <<contact_facility_df, contact_company_df, association_changes, exportFound>>
indexVars == <<dhcLookup, emailLookup, idx>>
builtVars == <<associations_df, associations_optimized>>
extractVars == <<master_df, builtVars>>
phoneVars == <<phone, phoneOut>>
summaryVars == <<summary>>
laterVars == <<extractVars, phoneVars, summaryVars>>
extraVars == <<indexVars, laterVars>>
vars == <<pc, run, normVars, importVars, matchVars, assocVars, changeVars, extraVars>>

\* what the steps of one script leave alone
exceptNorm == <<run, importVars, matchVars, assocVars, changeVars, extraVars>>
exceptImport == <<run, normVars, matchVars, assocVars, changeVars, extraVars>>
exceptMatch == <<run, normVars, importVars, assocVars, changeVars, extraVars>>
exceptDetect == <<run, normVars, facilities_df, companies_df, contacts_df, hubspot_facilities,
                  hubspot_companies, hubspot_contacts, assocVars, changeVars, extraVars>>

(***************************************************************************)
(* Bounds of the model.                                                    *)
(***************************************************************************)
MaxPieces == 2      \* a text cell is made of at most this many pieces
MaxFormatted == 1   \* rows of the formatted source table
MaxHubspot == 2     \* rows of the HubSpot export

(***************************************************************************)
(* Cells and text.                                                         *)
(***************************************************************************)
NaN == [k |-> "nan", n |-> 0, s |-> <<>>]
StrCell(t) == [k |-> "str", n |-> 0, s |-> t]
IntCell(i) == [k |-> "int", n |-> i, s |-> <<>>]
FloatCell(i) == [k |-> "float", n |-> i, s |-> <<>>]

DigitChars == <<"0", "1", "2", "3", "4", "5", "6", "7", "8", "9">>

RECURSIVE Digits(_)
Digits(i) ==
    IF i < Len(DigitChars) THEN <<DigitChars[i + 1]>>
    ELSE Digits(i \div Len(DigitChars)) \o <<DigitChars[(i % Len(DigitChars)) + 1]>>

\* pd.isna / Series.isna
IsNa(c) == c.k = "nan"

\* str(value) / Series.astype(str): a float prints with its ".0", NaN as "nan"
AsStr(c) ==
    CASE c.k = "str" -> c.s
      [] c.k = "int" -> Digits(c.n)
      [] c.k = "float" -> Digits(c.n) \o <<".", "0">>
      [] OTHER -> <<"n", "a", "n">>

\* Series.fillna('')
FillNa(c) == IF IsNa(c) THEN StrCell(<<>>) ELSE c

IsSpace(ch) == ch \in {" ", "\t"}

RECURSIVE LStrip(_)
LStrip(t) == IF t # <<>> /\ IsSpace(Head(t)) THEN LStrip(Tail(t)) ELSE t

RECURSIVE RStrip(_)
RStrip(t) ==
    IF t # <<>> /\ IsSpace(t[Len(t)]) THEN RStrip(SubSeq(t, 1, Len(t) - 1)) ELSE t

\* str.strip()
Strip(t) == RStrip(LStrip(t))

\* Series.replace(['nan', 'None'], ''): replaces a cell that IS one of the markers
UnsetMarkers == {<<"n", "a", "n">>, <<"N", "o", "n", "e">>}
ReplaceUnset(t) == IF t \in UnsetMarkers THEN <<>> ELSE t

DotZero == <<".", "0">>

\* Series.str.replace(r'\.0$', '', regex=True): one trailing ".0" is removed
StripDotZero(t) ==
    IF Len(t) >= Len(DotZero) /\ SubSeq(t, Len(t) - Len(DotZero) + 1, Len(t)) = DotZero
    THEN SubSeq(t, 1, Len(t) - Len(DotZero))
    ELSE t

\* the fields the change detector treats as numeric-like
NumericLikeFields == {"Zip Code", "Total Beds", "NPI", "CCN"}

\* lines 445, 449, 454: the normalization of the <field>_new column
NormalizeNew(f, c) ==
    LET filled == AsStr(FillNa(c))
        stripped == Strip(filled)
        unset == ReplaceUnset(stripped)
    IN  IF f \in NumericLikeFields THEN StripDotZero(unset) ELSE unset

\* NormalizeHub without the numeric-like step of line 455
NormalizeHubKeepsDotZero(f, c) == ReplaceUnset(Strip(AsStr(FillNa(c))))

\* lines 446, 450, 455: the normalization of the <field>_hubspot column
NormalizeHub(f, c) ==
    LET filled == AsStr(FillNa(c))
        stripped == Strip(filled)
        unset == ReplaceUnset(stripped)
    IN  IF f \in NumericLikeFields THEN StripDotZero(unset) ELSE unset

(***************************************************************************)
(* Input values for one field comparison.                                  *)
(***************************************************************************)
Pieces == {<<" ">>, <<"1", "2">>, <<".", "0">>, <<"n", "a", "n">>, <<"N", "o", "n", "e">>}

RECURSIVE TextsOf(_)
TextsOf(k) ==
    IF k = 0 THEN {<<>>}
    ELSE LET shorter == TextsOf(k - 1)
         IN  shorter \cup {t \o p : t \in shorter, p \in Pieces}

FieldCells == {StrCell(t) : t \in TextsOf(MaxPieces)} \cup {NaN, IntCell(12), FloatCell(12)}

NormFields == NumericLikeFields \cup {"City", "Postal Code"}

(***************************************************************************)
(* SpecNorm: one field of one merged row goes through the comparison loop  *)
(* of detect_changes_in_existing_records.                                  *)
(***************************************************************************)
ImportIdle ==
    /\ formatted = <<>>
    /\ hubspot = <<>>
    /\ facilitiesNew = <<>>
    /\ facilitiesExisting = <<>>
    /\ newFile = <<>>
    /\ updatesFile = <<>>

MatchIdle ==
    /\ facilities_df = <<>>
    /\ companies_df = <<>>
    /\ contacts_df = <<>>
    /\ hubspot_facilities = <<>>
    /\ hubspot_companies = <<>>
    /\ hubspot_contacts = <<>>
    /\ raised = ""

AssocIdle ==
    /\ facility_company_df = <<>>
    /\ current_df = <<>>
    /\ new_df = <<>>
    /\ add_df = <<>>
    /\ remove_df = <<>>

ChangesIdle ==
    /\ contact_facility_df = <<>>
    /\ contact_company_df = <<>>
    /\ association_changes = <<>>
    /\ exportFound = TRUE

IndexIdle ==
    /\ dhcLookup = <<>>
    /\ emailLookup = <<>>
    /\ idx = 0

BuiltIdle ==
    /\ associations_df = <<>>
    /\ associations_optimized = <<>>

ExtractIdle == master_df = <<>> /\ BuiltIdle

PhoneIdle ==
    /\ phone = NaN
    /\ phoneOut = <<>>

SummaryIdle == summary = <<>>

LaterIdle == ExtractIdle /\ PhoneIdle /\ SummaryIdle

ExtraIdle == IndexIdle /\ LaterIdle

InitNorm ==
    /\ pc = "raw"
    /\ run = 1
    /\ ExtraIdle
    /\ ChangesIdle
    /\ ImportIdle
    /\ MatchIdle
    /\ AssocIdle
    /\ field \in NormFields
    /\ rawNew \in FieldCells
    /\ rawHub \in FieldCells
    /\ normNew = <<>>
    /\ normHub = <<>>
    /\ fieldChanged = FALSE

\* lines 444-455: both columns are normalized
NormalizeField ==
    /\ pc = "raw"
    /\ normNew' = NormalizeNew(field, rawNew)
    /\ normHub' = NormalizeHub(field, rawHub)
    /\ pc' = "normalized"
    /\ UNCHANGED <<field, rawNew, rawHub, fieldChanged, exceptNorm>>

\* line 458: field_changes = new_vals != hubspot_vals
CompareField ==
    /\ pc = "normalized"
    /\ fieldChanged' = (normNew # normHub)
    /\ pc' = "compared"
    /\ UNCHANGED <<field, rawNew, rawHub, normNew, normHub, exceptNorm>>

NextNorm == NormalizeField \/ CompareField

SpecNorm == InitNorm /\ [][NextNorm]_vars


(***************************************************************************)
(* Tables.  A row is a function from column names to cells.                *)
(***************************************************************************)
RECURSIVE SeqsUpTo(_, _)
SeqsUpTo(S, k) ==
    IF k = 0 THEN {<<>>}
    ELSE LET shorter == SeqsUpTo(S, k - 1)
         IN  shorter \cup {Append(t, x) : t \in {u \in shorter : Len(u) = k - 1}, x \in S}

Range(t) == {t[i] : i \in 1..Len(t)}

IsDigits(t) == t # <<>> /\ \A i \in 1..Len(t) : t[i] \in Range(DigitChars)

DigitVal(ch) == (CHOOSE i \in 1..Len(DigitChars) : DigitChars[i] = ch) - 1

RECURSIVE NumOf(_)
NumOf(t) ==
    IF t = <<>> THEN 0
    ELSE NumOf(SubSeq(t, 1, Len(t) - 1)) * Len(DigitChars) + DigitVal(t[Len(t)])

\* float(text) for the texts of the model: digits with an optional ".0";
\* <<n>> is the number read, <<>> stands for a text that is no number
ParseNumber(t) ==
    LET digits == StripDotZero(Strip(t))
    IN  IF IsDigits(digits) THEN <<NumOf(digits)>> ELSE <<>>

\* pd.to_numeric(errors='coerce'): <<>> stands for <NA>
ToNumeric(c) ==
    CASE c.k \in {"int", "float"} -> <<c.n>>
      [] c.k = "str" -> ParseNumber(c.s)
      [] OTHER -> <<>>

\* lines 427-428: to_numeric(...).astype('Int64').astype(str)
RecordIdKey(c) ==
    LET num == ToNumeric(c)
    IN  IF num = <<>> THEN <<"<", "N", "A", ">">> ELSE Digits(num[1])

\* df[df[col].notna() & (df[col] != '')]
NotBlank(c) == ~IsNa(c) /\ c # StrCell(<<>>)

\* df.drop_duplicates(subset=[col], keep='first')
RECURSIVE DropDuplicates(_, _)
DropDuplicates(rows, col) ==
    IF rows = <<>> THEN <<>>
    ELSE LET front == DropDuplicates(SubSeq(rows, 1, Len(rows) - 1), col)
             last == rows[Len(rows)]
         IN  IF \E i \in 1..Len(rows) - 1 : rows[i][col] = last[col]
             THEN front ELSE Append(front, last)

\* df.drop(col, axis=1)
DropColumn(rows, col) ==
    [i \in 1..Len(rows) |-> [c \in (DOMAIN rows[i]) \ {col} |-> rows[i][c]]]

(***************************************************************************)
(* Change detection (process_all_data_complete.py).                        *)
(***************************************************************************)
\* lines 409-416: the comparison set of each object type
KeyFields(objectType) ==
    CASE objectType = "facilities" ->
           {"Name of Facility", "Street", "City", "State", "Zip Code", "Phone Number",
            "NPI", "Facility website", "Total Beds", "CCN"}
      [] objectType = "companies" ->
           {"Company name", "Street Address", "City", "State/Region", "Postal Code",
            "Phone Number", "Website URL"}
      [] objectType = "contacts" -> {"First Name", "Last Name", "Job Title", "Email"}
      [] OTHER -> {}

\* line 419: the fields of the comparison set that both tables have
AvailableFields(existing, hub, objectType) ==
    {f \in KeyFields(objectType) :
        /\ \A i \in 1..Len(existing) : f \in DOMAIN existing[i]
        /\ \A i \in 1..Len(hub) : f \in DOMAIN hub[i]}

\* lines 430-435: existing_df.merge(hubspot_df, on='Record ID', how='left');
\* a row without a partner is paired with missing values
RECURSIVE MergeLeft(_, _, _)
MergeLeft(existing, hub, fields) ==
    IF existing = <<>> THEN <<>>
    ELSE LET e == Head(existing)
             SameId(h) == RecordIdKey(h["Record ID"]) = RecordIdKey(e["Record ID"])
             partners == SelectSeq(hub, SameId)
             alone == <<[new |-> e, hub |-> [f \in fields |-> NaN]]>>
             pairs == [i \in 1..Len(partners) |-> [new |-> e, hub |-> partners[i]]]
         IN  (IF partners = <<>> THEN alone ELSE pairs) \o MergeLeft(Tail(existing), hub, fields)

\* lines 438-459: change_mask of one merged row
RowChanged(pair, fields) ==
    \E f \in fields : NormalizeNew(f, pair.new[f]) # NormalizeHub(f, pair.hub[f])

\* lines 401-491: the rows of existing_df that need an update and the
\* exception raised. Line 468 reads changed_records['CCN_new'] whenever a
\* facility changed, and the merge gives the suffix only to a column both
\* tables have: KeyError when CCN is not a field of the comparison
DetectChanges(existing, hub, objectType) ==
    LET fields == AvailableFields(existing, hub, objectType)
        Changed(pair) == RowChanged(pair, fields)
        changed == SelectSeq(MergeLeft(existing, hub, fields), Changed)
    IN  IF existing = <<>> \/ KeyFields(objectType) = {} THEN [rows |-> existing, raised |-> ""]
        ELSE IF fields = {} THEN [rows |-> <<>>, raised |-> ""]
        ELSE IF changed # <<>> /\ objectType = "facilities" /\ "CCN" \notin fields
        THEN [rows |-> <<>>, raised |-> "KeyError"]
        ELSE [rows |-> [i \in 1..Len(changed) |->
                          [changed[i].new EXCEPT !["Record ID"] = StrCell(RecordIdKey(@))]],
              raised |-> ""]

\* lines 427-428: the Record ID column of a table is rewritten in place
NormalizeRecordIds(hub) ==
    [i \in 1..Len(hub) |-> [hub[i] EXCEPT !["Record ID"] = StrCell(RecordIdKey(@))]]

(***************************************************************************)
(* SpecImport: create_import_files on the facilities, as the complete      *)
(* pipeline does it and as the stand-alone create_import_files.py does it. *)
(***************************************************************************)
IsNewRow(row) == IsNa(row["Record ID"]) \/ row["Record ID"] = StrCell(<<>>)
\* a changed mask that forgets the comparison with the empty text
IsExistingRowNotNa(row) == ~IsNa(row["Record ID"])
IsExistingRow(row) == ~IsNewRow(row)

FormattedRows ==
    [{"Record ID"} -> {StrCell(<<>>), StrCell(<<"1">>), StrCell(<<"2", ".", "0">>)}]
HubspotRows == [{"Record ID"} -> {IntCell(1), FloatCell(2)}]
ComparedCells ==
    [{"CCN"} -> {StrCell(<<>>), StrCell(<<"1", "2">>)}]
ComparedBeds == [{"Total Beds"} -> {NaN, IntCell(12), FloatCell(12)}]

Join(a, b) == [c \in (DOMAIN a) \cup (DOMAIN b) |-> IF c \in DOMAIN a THEN a[c] ELSE b[c]]

FormattedFacilities == {Join(r, Join(c, b)) : r \in FormattedRows, c \in ComparedCells, b \in ComparedBeds}
HubspotFacilities == {Join(r, Join(c, b)) : r \in HubspotRows, c \in ComparedCells, b \in ComparedBeds}

FormattedRow ==
    [c \in {"Record ID", "CCN", "Total Beds"} |->
        IF c = "Record ID" THEN StrCell(<<"1">>) ELSE NaN]
HubspotRow ==
    [c \in {"Record ID", "CCN", "Total Beds"} |->
        IF c = "Record ID" THEN IntCell(1) ELSE NaN]

NormIdle ==
    /\ field = ""
    /\ rawNew = NaN
    /\ rawHub = NaN
    /\ normNew = <<>>
    /\ normHub = <<>>
    /\ fieldChanged = FALSE

InitImport ==
    /\ pc = "formatted"
    /\ run = 1
    /\ ExtraIdle
    /\ ChangesIdle
    /\ NormIdle
    /\ MatchIdle
    /\ AssocIdle
    /\ \/ /\ formatted \in SeqsUpTo(FormattedFacilities, MaxFormatted)
          /\ hubspot \in SeqsUpTo(HubspotFacilities, MaxHubspot)
       \/ \E v \in FieldCells, w \in FieldCells :
            \* one matched facility and its HubSpot record, with any text in the CCN
            /\ formatted = <<[FormattedRow EXCEPT !["CCN"] = v]>>
            /\ hubspot = <<[HubspotRow EXCEPT !["CCN"] = w]>>
       \/ \E v \in {NaN, IntCell(12)}, w \in {StrCell(<<>>), StrCell(<<"1", "2">>)} :
            \* a HubSpot export that has no 'Total Beds' column
            /\ formatted = <<[FormattedRow EXCEPT !["CCN"] = StrCell(<<"1", "2">>),
                                                  !["Total Beds"] = v]>>
            /\ hubspot = <<[c \in {"Record ID", "CCN"} |->
                                IF c = "Record ID" THEN IntCell(1) ELSE w]>>
       \/ \E r \in FormattedRows, v \in {StrCell(<<>>), StrCell(<<"1", "2">>)},
             b \in {IntCell(12), IntCell(13)}, w \in {NaN, IntCell(13)} :
            \* a HubSpot export that has no 'CCN' column
            /\ formatted = <<Join(r, [c \in {"CCN", "Total Beds"} |->
                                        IF c = "CCN" THEN v ELSE b])>>
            /\ hubspot = <<[c \in {"Record ID", "Total Beds"} |->
                                IF c = "Record ID" THEN IntCell(1) ELSE w]>>
    /\ facilitiesNew = <<>>
    /\ facilitiesExisting = <<>>
    /\ newFile = <<>>
    /\ updatesFile = <<>>

\* process_all_data_complete.py lines 502-509
SplitFacilities ==
    /\ pc = "formatted"
    /\ facilitiesNew' = DropColumn(SelectSeq(formatted, IsNewRow), "Record ID")
    /\ facilitiesExisting' = SelectSeq(formatted, IsExistingRow)
    /\ pc' = "split"
    /\ UNCHANGED <<exceptImport, formatted, hubspot, newFile, updatesFile>>

\* process_all_data_complete.py line 512; lines 427-428 have rewritten the
\* Record IDs of both tables when the detector raises, and the result is
\* assigned only when it returns
DetectFacilityChanges ==
    /\ pc = "split"
    /\ \E detected \in {DetectChanges(facilitiesExisting, hubspot, "facilities")},
          merged \in {facilitiesExisting # <<>>
                      /\ AvailableFields(facilitiesExisting, hubspot, "facilities") # {}} :
           /\ facilitiesExisting' = IF detected.raised = "" THEN detected.rows
                                    ELSE NormalizeRecordIds(facilitiesExisting)
           /\ hubspot' = IF merged THEN NormalizeRecordIds(hubspot) ELSE hubspot
           /\ raised' = detected.raised
           /\ pc' = IF detected.raised = "" THEN "detected" ELSE "failed"
    /\ UNCHANGED <<exceptDetect, formatted, facilitiesNew, newFile, updatesFile>>

\* detect_changes_in_existing_records called on the table as it is, rows
\* without a Record ID included: lines 401-435 do not look at the Record IDs
\* before the merge and raise nothing; lines 427-428 rewrite the Record IDs
\* of the two tables passed
DetectUnsplitFacilities ==
    /\ pc = "formatted"
    /\ \E detected \in {DetectChanges(formatted, hubspot, "facilities")},
          merged \in {formatted # <<>> /\ AvailableFields(formatted, hubspot, "facilities") # {}} :
           /\ facilitiesExisting' = detected.rows
           /\ formatted' = IF merged THEN NormalizeRecordIds(formatted) ELSE formatted
           /\ hubspot' = IF merged THEN NormalizeRecordIds(hubspot) ELSE hubspot
           /\ raised' = detected.raised
           /\ pc' = IF detected.raised = "" THEN "invoked" ELSE "failed"
    /\ UNCHANGED <<exceptDetect, facilitiesNew, newFile, updatesFile>>

\* lines 555-559 and 622-629: the cleaning before a facilities file is written
CleanFacilities(rows) ==
    LET HasCcn(row) == NotBlank(row["CCN"])
    IN  DropDuplicates(SelectSeq(rows, HasCcn), "CCN")

\* line 613: Record ID as Int64
IntegerRecordIds(rows) ==
    [i \in 1..Len(rows) |->
        [rows[i] EXCEPT !["Record ID"] =
            IF ToNumeric(@) = <<>> THEN NaN ELSE IntCell(ToNumeric(@)[1])]]

\* process_all_data_complete.py lines 544-565 and 609-635
SaveFacilityFiles ==
    /\ pc = "detected"
    /\ facilitiesNew' = CleanFacilities(facilitiesNew)
    /\ newFile' = CleanFacilities(facilitiesNew)
    /\ facilitiesExisting' = IntegerRecordIds(facilitiesExisting)
    /\ updatesFile' = DropDuplicates(CleanFacilities(IntegerRecordIds(facilitiesExisting)), "Record ID")
    /\ pc' = "saved"
    /\ UNCHANGED <<exceptImport, formatted, hubspot>>

\* create_import_files.py lines 38-97: every row with a Record ID is an update
StandaloneCreateImportFiles ==
    /\ pc = "formatted"
    /\ facilitiesNew' = DropColumn(SelectSeq(formatted, IsNewRow), "Record ID")
    /\ facilitiesExisting' = SelectSeq(formatted, IsExistingRow)
    /\ newFile' = DropColumn(SelectSeq(formatted, IsNewRow), "Record ID")
    /\ updatesFile' = SelectSeq(formatted, IsExistingRow)
    /\ pc' = "standalone"
    /\ UNCHANGED <<exceptImport, formatted, hubspot>>

NextImport ==
    \/ SplitFacilities
    \/ DetectFacilityChanges
    \/ DetectUnsplitFacilities
    \/ SaveFacilityFiles
    \/ StandaloneCreateImportFiles

SpecImport == InitImport /\ [][NextImport]_vars

(***************************************************************************)
(* Properties of the change classification (SpecImport).                   *)
(***************************************************************************)
\* the rows of the formatted table that carry a Record ID
MatchedFacilities == {formatted[i] : i \in {j \in 1..Len(formatted) : IsExistingRow(formatted[j])}}

\* the HubSpot rows with the Record ID of e
Partners(e) ==
    {hubspot[i] : i \in {j \in 1..Len(hubspot) :
        RecordIdKey(hubspot[j]["Record ID"]) = RecordIdKey(e["Record ID"])}}

ComparedFields(e) == KeyFields("facilities") \cap DOMAIN e

\* the cell of field f in HubSpot record h; missing when the export has no
\* such column
HubCell(h, f) == IF f \in DOMAIN h THEN h[f] ELSE NaN

DiffersFrom(e, h) ==
    \E f \in ComparedFields(e) : NormalizeNew(f, e[f]) # NormalizeHub(f, HubCell(h, f))

\* e is a row of the update set
EmittedAsUpdate(e) ==
    \E i \in 1..Len(facilitiesExisting) :
        /\ RecordIdKey(facilitiesExisting[i]["Record ID"]) = RecordIdKey(e["Record ID"])
        /\ \A c \in (DOMAIN e) \ {"Record ID"} : facilitiesExisting[i][c] = e[c]

\* C4: a matched entity is in the update set exactly when a field of the
\* comparison set differs, after normalization, from the HubSpot record with
\* its Record ID; this is claimed of the complete pipeline and of the
\* stand-alone create_import_files.py.
C4_UpdateIffFieldDiffers ==
    (pc \in {"detected", "standalone"}) =>
        \A e \in MatchedFacilities :
            Partners(e) # {} =>
                (EmittedAsUpdate(e) <=> \E h \in Partners(e) : DiffersFrom(e, h))

RawEqualToPartners(e) ==
    /\ Partners(e) # {}
    /\ \A h \in Partners(e) : \A f \in ComparedFields(e) : e[f] = HubCell(h, f)

\* C8: both sides of every compared field get the same normalization, so a
\* matched entity whose raw values equal those of its HubSpot record is never
\* reported as an update by the change detector.
C8_EqualRawNeverUpdate ==
    (pc = "detected") =>
        \A e \in MatchedFacilities : RawEqualToPartners(e) => ~EmittedAsUpdate(e)

\* a matched facility whose CCN is the float 12.0, as is its record's CCN,
\* went through the detector and is not an update
C8_Witness ==
    /\ pc = "detected"
    /\ \E e \in MatchedFacilities :
        /\ RawEqualToPartners(e)
        /\ e["CCN"] = FloatCell(12)
        /\ ~EmittedAsUpdate(e)

(***************************************************************************)
(* Properties of the field normalization (SpecNorm).                       *)
(***************************************************************************)
\* the cells the change detector is meant to read as the empty value
EmptyCells ==
    {NaN, StrCell(<<>>), StrCell(<<" ">>), StrCell(<<"n", "a", "n">>),
     StrCell(<<"N", "o", "n", "e">>)}

\* the text of a cell as the comparison sees it before any cleaning
RawText(c) == AsStr(FillNa(c))

\* C7: for a numeric-like field, a value with a trailing ".0" compares equal
\* to the same value without it, and blank, NaN and the unset markers all
\* compare equal to each other, whichever side they are on.
C7_NumericLikeEquality ==
    (pc = "compared" /\ field \in NumericLikeFields) =>
        /\ (RawText(rawNew) = RawText(rawHub) \o DotZero => ~fieldChanged)
        /\ (RawText(rawHub) = RawText(rawNew) \o DotZero => ~fieldChanged)
        /\ (rawNew \in EmptyCells /\ rawHub \in EmptyCells => ~fieldChanged)

\* C9: normalizing an already normalized value changes nothing, on either
\* side and for every field.
C9_NormalizeIdempotent ==
    (pc # "raw") =>
        /\ NormalizeNew(field, StrCell(normNew)) = normNew
        /\ NormalizeHub(field, StrCell(normHub)) = normHub

(***************************************************************************)
(* Record ID matching: match_record_ids of process_all_data.py and of      *)
(* process_all_data_complete.py, match_contact_record_ids of               *)
(* process_contacts.py.  A lookup dict is a function from keys to the text *)
(* of a Record ID.                                                         *)
(***************************************************************************)
MaxSource == 2   \* rows of a formatted source table
MaxDest == 2     \* rows of a HubSpot export

UpperChars == <<"A", "B", "C", "D", "E", "F", "G", "H", "I", "J", "K", "L", "M",
                "N", "O", "P", "Q", "R", "S", "T", "U", "V", "W", "X", "Y", "Z">>
LowerChars == <<"a", "b", "c", "d", "e", "f", "g", "h", "i", "j", "k", "l", "m",
                "n", "o", "p", "q", "r", "s", "t", "u", "v", "w", "x", "y", "z">>

\* str.lower()
Lower(t) ==
    [i \in 1..Len(t) |->
        IF t[i] \in Range(UpperChars)
        THEN LowerChars[CHOOSE j \in 1..Len(UpperChars) : UpperChars[j] = t[i]]
        ELSE t[i]]

\* str(row[col]).strip()
KeyText(c) == Strip(AsStr(c))

\* `text and text != 'nan'`
Usable(t) == t # <<>> /\ t # <<"n", "a", "n">>

\* str(row['Email']).strip().lower()
EmailText(c) == Lower(KeyText(c))

\* `email and email != 'nan' and email != 'none'`
UsableEmail(t) == Usable(t) /\ t # <<"n", "o", "n", "e">>

RecordIdText(row) == KeyText(row["Record ID"])

\* a dict filled by a loop over the rows: keys[i] is <<k>> when row i is
\* stored under k and <<>> when row i is skipped; a later row with the key
\* of an earlier one overwrites it
DictOf(rows, keys) ==
    LET stored == {i \in 1..Len(rows) : keys[i] # <<>>}
        Last(k) == CHOOSE i \in stored :
                      /\ keys[i] = <<k>>
                      /\ \A j \in stored : keys[j] = <<k>> => j <= i
    IN  [k \in {keys[i][1] : i \in stored} |-> RecordIdText(rows[Last(k)])]

\* process_all_data.py lines 266-271
CcnKey(row) ==
    IF Usable(KeyText(row["CCN"])) /\ Usable(RecordIdText(row))
    THEN <<KeyText(row["CCN"])>> ELSE <<>>
ccn_to_record_id(hub) == DictOf(hub, [i \in 1..Len(hub) |-> CcnKey(hub[i])])

\* process_contacts.py lines 89-97: int(float(dhc_id)), the row is skipped
\* when the conversion raises ValueError
DhcKey(row) ==
    IF Usable(KeyText(row["DHC ID"])) /\ Usable(RecordIdText(row))
    THEN ParseNumber(KeyText(row["DHC ID"])) ELSE <<>>
dhc_to_record_id(hub) == DictOf(hub, [i \in 1..Len(hub) |-> DhcKey(hub[i])])

\* process_contacts.py lines 112-117
EmailKey(row) ==
    IF UsableEmail(EmailText(row["Email"])) /\ Usable(RecordIdText(row))
    THEN <<EmailText(row["Email"])>> ELSE <<>>
email_to_record_id(hub) == DictOf(hub, [i \in 1..Len(hub) |-> EmailKey(hub[i])])

\* df.at[idx, 'Record ID'] = record_id
SetRecordId(row, t) == [row EXCEPT !["Record ID"] = StrCell(t)]

\* process_all_data.py lines 274-278
MatchFacilitiesByCcn(src, hub) ==
    LET index == ccn_to_record_id(hub)
    IN  [i \in 1..Len(src) |->
            LET ccn == KeyText(src[i]["CCN"])
            IN  IF Usable(ccn) /\ ccn \in DOMAIN index
                THEN SetRecordId(src[i], index[ccn]) ELSE src[i]]

\* `pd.notna(dhc_id) and dhc_id in dhc_to_record_id`: the keys are integers,
\* so a number finds its key and a text finds none
DhcProbe(c) == IF c.k \in {"int", "float"} THEN <<c.n>> ELSE <<>>

\* process_contacts.py lines 102-106 (and the facility loop of
\* process_all_data_complete.py, lines 309-313)
MatchByDhcId(src, hub) ==
    LET index == dhc_to_record_id(hub)
    IN  [i \in 1..Len(src) |->
            LET probe == DhcProbe(src[i]["DHC ID"])
            IN  IF probe # <<>> /\ probe[1] \in DOMAIN index
                THEN SetRecordId(src[i], index[probe[1]]) ELSE src[i]]

\* int(row['DHC ID']): <<>> when it raises ValueError
IntOf(c) ==
    CASE c.k \in {"int", "float"} -> <<c.n>>
      [] c.k = "str" -> IF IsDigits(Strip(c.s)) THEN <<NumOf(Strip(c.s))>> ELSE <<>>
      [] OTHER -> <<>>

\* the rows of the company loop that raise
RaisingRows(src) == {i \in 1..Len(src) : IntOf(src[i]["DHC ID"]) = <<>>}

\* process_all_data.py lines 292-296: the loop ends at the first row that raises
MatchCompaniesByDhcId(src, hub) ==
    LET index == dhc_to_record_id(hub)
        Reached(i) == \A j \in RaisingRows(src) : i < j
    IN  [i \in 1..Len(src) |->
            IF Reached(i) /\ IntOf(src[i]["DHC ID"])[1] \in DOMAIN index
            THEN SetRecordId(src[i], index[IntOf(src[i]["DHC ID"])[1]]) ELSE src[i]]

\* the email loop without the test of line 124
MatchContactsByEmailOverwriting(src, hub) ==
    LET index == email_to_record_id(hub)
    IN  [i \in 1..Len(src) |->
            LET email == EmailText(src[i]["Email"])
            IN  IF UsableEmail(email) /\ email \in DOMAIN index
                THEN SetRecordId(src[i], index[email]) ELSE src[i]]

\* process_contacts.py lines 122-128
MatchContactsByEmail(src, hub) ==
    LET index == email_to_record_id(hub)
    IN  [i \in 1..Len(src) |->
            LET email == EmailText(src[i]["Email"])
            IN  IF /\ src[i]["Record ID"] = StrCell(<<>>)
                   /\ UsableEmail(email)
                   /\ email \in DOMAIN index
                THEN SetRecordId(src[i], index[email]) ELSE src[i]]

\* contacts_df.merge(right[[key, 'Record ID']], on=key, how='left'): the
\* column 'Record ID_hubspot' of the merged table.  A left row is followed
\* by one merged row for every right row with its key, in the order of the
\* right table, or by one merged row without a value; a missing key is equal
\* to a missing key.  right[j] is <<key, Record ID>>, a key is <<k>> or <<>>.
RECURSIVE MergedColumn(_, _)
MergedColumn(leftKeys, right) ==
    IF leftKeys = <<>> THEN <<>>
    ELSE LET hits == SelectSeq(right, LAMBDA r : r[1] = Head(leftKeys))
         IN  (IF hits = <<>> THEN <<NaN>> ELSE [j \in 1..Len(hits) |-> hits[j][2]])
                 \o MergedColumn(Tail(leftKeys), right)

\* process_all_data_complete.py lines 333-388: the contacts after the merge
\* on DHC ID and the merge on the normalized Email, and the exception raised
\* ("" when none is).  A merged column with a missing value holds floats.
\* A boolean mask is read at the labels of the rows of contacts_df, and a
\* column assigned through .loc is aligned on its labels.  An Email column
\* of the export with rows and without any text is a float column, on which
\* .str raises (line 373); the Email column of contacts_df has the type it
\* had in the executives file, of which contacts_df keeps only some rows:
\* objectEmail tells whether it is an object column, and .str raises on it
\* (line 374) when it is not.
MatchContactsByMerge(src, hub, objectEmail) ==
    LET Column(cells) ==
            IF \E p \in 1..Len(cells) : IsNa(cells[p])
            THEN [p \in 1..Len(cells) |->
                    IF cells[p].k = "int" THEN FloatCell(cells[p].n) ELSE cells[p]]
            ELSE cells
        \* lines 337-346
        hubDhc == SelectSeq(hub, LAMBDA r : NotBlank(r["DHC ID"]) /\ NotBlank(r["Record ID"]))
        numeric == [i \in 1..Len(src) |-> ToNumeric(src[i]["DHC ID"])]
        dhcCells == Column([i \in 1..Len(src) |->
                              IF numeric[i] = <<>> THEN NaN ELSE IntCell(numeric[i][1])])
        \* lines 349-359
        byDhc == Column(MergedColumn(numeric,
                    [j \in 1..Len(hubDhc) |-> <<ToNumeric(hubDhc[j]["DHC ID"]), hubDhc[j]["Record ID"]>>]))
        \* lines 366-375
        hubEmail == SelectSeq(hub, LAMBDA r : NotBlank(r["Email"]) /\ NotBlank(r["Record ID"]))
        Normalized(c) == IF c.k = "str" THEN <<Lower(Strip(c.s))>> ELSE <<>>
        merged == [i \in 1..Len(src) |->
                        [src[i] EXCEPT !["DHC ID"] = dhcCells[i],
                                       !["Record ID"] = IF ~IsNa(byDhc[i]) THEN byDhc[i] ELSE @]]
        NoText(df) == df # <<>> /\ \A i \in 1..Len(df) : df[i]["Email"].k # "str"
        afterDhc == [i \in 1..Len(src) |->
                        merged[i] @@ ("Email_normalized" :>
                               IF Normalized(src[i]["Email"]) = <<>> THEN NaN
                               ELSE StrCell(Normalized(src[i]["Email"])[1]))]
        \* lines 378-388
        Open(i) == IsNa(afterDhc[i]["Record ID"]) \/ afterDhc[i]["Record ID"] = StrCell(<<>>)
        unmatched == SelectSeq([i \in 1..Len(src) |-> i], Open)
        byEmail == Column(MergedColumn(
                    [p \in 1..Len(unmatched) |-> Normalized(src[unmatched[p]]["Email"])],
                    [j \in 1..Len(hubEmail) |-> <<Normalized(hubEmail[j]["Email"]), hubEmail[j]["Record ID"]>>]))
        hit == {p \in 1..Len(byEmail) : ~IsNa(byEmail[p])}
        \* line 392
        labels == {unmatched[p] : p \in hit}
    IN  IF NoText(hub) \/ ~objectEmail
        THEN [rows |-> merged, raised |-> "AttributeError"]
        ELSE IF hit = {}
        THEN [rows |-> afterDhc, raised |-> ""]
        ELSE IF Len(byEmail) # Len(unmatched)
        THEN [rows |-> afterDhc, raised |-> "IndexError"]
        ELSE [rows |-> [i \in 1..Len(src) |->
                          IF i \in labels
                          THEN [afterDhc[i] EXCEPT !["Record ID"] =
                                   IF i \in hit THEN byEmail[i] ELSE NaN]
                          ELSE afterDhc[i]],
              raised |-> ""]

(***************************************************************************)
(* SpecMatch: the tables are loaded and the Record ID columns are '';      *)
(* match_record_ids of process_all_data.py runs loop by loop, or           *)
(* match_contact_record_ids of process_contacts.py runs, or the facility   *)
(* loop of process_all_data_complete.py runs.                              *)
(***************************************************************************)
\* lines 261-263: the new column is ''
Unmatched(rows) ==
    [i \in 1..Len(rows) |-> rows[i] @@ ("Record ID" :> StrCell(<<>>))]

\* the records of an export have the Record IDs 1, 2, ...
Exported(rows) ==
    [i \in 1..Len(rows) |-> rows[i] @@ ("Record ID" :> IntCell(i))]

HubDhcCells == {NaN, IntCell(7), StrCell(<<"x">>)}

FacilityRows ==
    {("CCN" :> c) @@ ("DHC ID" :> d) :
        c \in {NaN, StrCell(<<"1", "2">>)}, d \in {NaN, IntCell(7)}}
HubFacilityRows ==
    {("CCN" :> c) @@ ("DHC ID" :> d) :
        c \in {NaN, StrCell(<<"1", "2">>)}, d \in HubDhcCells}

CompanyRows ==
    {("DHC ID" :> d) : d \in {NaN, IntCell(7), FloatCell(7), StrCell(<<"x">>)}}
HubCompanyRows == {("DHC ID" :> d) : d \in HubDhcCells}

ContactRows ==
    {("DHC ID" :> d) @@ ("Email" :> e) :
        d \in {NaN, IntCell(7), StrCell(<<"7">>)}, e \in {NaN, StrCell(<<" ", "A">>)}}
HubContactRows ==
    {("DHC ID" :> d) @@ ("Email" :> e) :
        d \in {NaN, IntCell(7)}, e \in {NaN, StrCell(<<"a">>), StrCell(<<"N", "o", "n", "e">>)}}

\* one entity of each type that has its record in the export
KnownFacility == ("CCN" :> StrCell(<<"1", "2">>)) @@ ("DHC ID" :> IntCell(7))
KnownCompany == ("DHC ID" :> IntCell(7))
KnownContact == ("DHC ID" :> IntCell(7)) @@ ("Email" :> StrCell(<<"a">>))

InitMatch ==
    /\ pc = "loaded"
    /\ run = 1
    /\ ExtraIdle
    /\ ChangesIdle
    /\ NormIdle
    /\ ImportIdle
    /\ AssocIdle
    /\ raised = ""
    /\ \/ /\ facilities_df \in {Unmatched(t) : t \in SeqsUpTo(FacilityRows, MaxSource)}
          /\ hubspot_facilities \in {Exported(t) : t \in SeqsUpTo(HubFacilityRows, MaxDest)}
          /\ companies_df = Unmatched(<<KnownCompany>>)
          /\ hubspot_companies = Exported(<<KnownCompany>>)
          /\ contacts_df = Unmatched(<<KnownContact>>)
          /\ hubspot_contacts = Exported(<<KnownContact>>)
       \/ /\ facilities_df = Unmatched(<<KnownFacility>>)
          /\ hubspot_facilities = Exported(<<KnownFacility>>)
          /\ companies_df \in {Unmatched(t) : t \in SeqsUpTo(CompanyRows, MaxSource)}
          /\ hubspot_companies \in {Exported(t) : t \in SeqsUpTo(HubCompanyRows, MaxDest)}
          /\ contacts_df = Unmatched(<<KnownContact>>)
          /\ hubspot_contacts = Exported(<<KnownContact>>)
       \/ /\ facilities_df = Unmatched(<<KnownFacility>>)
          /\ hubspot_facilities = Exported(<<KnownFacility>>)
          /\ companies_df = Unmatched(<<KnownCompany>>)
          /\ hubspot_companies = Exported(<<KnownCompany>>)
          /\ contacts_df \in {Unmatched(t) : t \in SeqsUpTo(ContactRows, MaxSource)}
          /\ hubspot_contacts \in {Exported(t) : t \in SeqsUpTo(HubContactRows, MaxDest)}

hubVars == <<hubspot_facilities, hubspot_companies, hubspot_contacts>>

\* process_all_data.py lines 265-278
ResolveFacilities ==
    /\ pc = "loaded"
    /\ facilities_df' = MatchFacilitiesByCcn(facilities_df, hubspot_facilities)
    /\ pc' = "facilities"
    /\ UNCHANGED <<exceptMatch, hubVars, companies_df, contacts_df, raised>>

\* process_all_data.py lines 280-296
ResolveCompanies ==
    /\ pc = "facilities"
    /\ companies_df' = MatchCompaniesByDhcId(companies_df, hubspot_companies)
    /\ raised' = IF RaisingRows(companies_df) # {} THEN "ValueError" ELSE ""
    /\ pc' = IF RaisingRows(companies_df) # {} THEN "failed" ELSE "companies"
    /\ UNCHANGED <<exceptMatch, hubVars, facilities_df, contacts_df>>

\* process_all_data.py lines 298-315
ResolveContactsByDhcId ==
    /\ pc = "companies"
    /\ contacts_df' = MatchByDhcId(contacts_df, hubspot_contacts)
    /\ pc' = "contactsByDhc"
    /\ UNCHANGED <<exceptMatch, hubVars, facilities_df, companies_df, raised>>

\* process_all_data.py lines 317-333
ResolveContactsByEmail ==
    /\ pc = "contactsByDhc"
    /\ contacts_df' = MatchContactsByEmail(contacts_df, hubspot_contacts)
    /\ pc' = "matched"
    /\ UNCHANGED <<exceptMatch, hubVars, facilities_df, companies_df, raised>>

\* process_contacts.py lines 71-142
match_contact_record_ids ==
    /\ pc = "loaded"
    /\ contacts_df' = MatchContactsByEmail(MatchByDhcId(contacts_df, hubspot_contacts),
                                           hubspot_contacts)
    /\ pc' = "contactsMatched"
    /\ UNCHANGED <<exceptMatch, hubVars, facilities_df, companies_df, raised>>

\* process_all_data_complete.py lines 297-313
ResolveFacilitiesByDhcId ==
    /\ pc = "loaded"
    /\ facilities_df' = MatchByDhcId(facilities_df, hubspot_facilities)
    /\ pc' = "facilitiesByDhc"
    /\ UNCHANGED <<exceptMatch, hubVars, companies_df, contacts_df, raised>>

\* process_all_data_complete.py lines 330-395; a table with e-mail text has
\* an object Email column, a table without any has the column type of the
\* file it was cut from, which the rows left out at line 253 decide
ResolveContactsByMerge ==
    /\ pc = "loaded"
    /\ \E objectEmail \in IF \E i \in 1..Len(contacts_df) : contacts_df[i]["Email"].k = "str"
                           THEN {TRUE} ELSE BOOLEAN :
         \E matched \in {MatchContactsByMerge(contacts_df, hubspot_contacts, objectEmail)} :
            /\ contacts_df' = matched.rows
            /\ raised' = matched.raised
            /\ pc' = IF matched.raised = "" THEN "contactsMerged" ELSE "mergeFailed"
    /\ UNCHANGED <<exceptMatch, hubVars, facilities_df, companies_df>>

NextMatch ==
    \/ ResolveFacilities
    \/ ResolveCompanies
    \/ ResolveContactsByDhcId
    \/ ResolveContactsByEmail
    \/ match_contact_record_ids
    \/ ResolveFacilitiesByDhcId
    \/ ResolveContactsByMerge

SpecMatch == InitMatch /\ [][NextMatch]_vars

(***************************************************************************)
(* Properties of the Record ID matching (SpecMatch).                       *)
(***************************************************************************)
\* the contact loops have run
ContactsResolved == pc \in {"matched", "contactsMatched"}

\* <<X>> when the DHC ID of the row is in the DHC index under Record ID X
DhcHit(row, hub) ==
    LET probe == DhcProbe(row["DHC ID"])
    IN  IF probe # <<>> /\ probe[1] \in DOMAIN dhc_to_record_id(hub)
        THEN <<dhc_to_record_id(hub)[probe[1]]>> ELSE <<>>

\* <<Y>> when the normalized email of the row is in the email index under Y
EmailHit(row, hub) ==
    LET email == EmailText(row["Email"])
    IN  IF UsableEmail(email) /\ email \in DOMAIN email_to_record_id(hub)
        THEN <<email_to_record_id(hub)[email]>> ELSE <<>>

\* the contact has a DHC ID hit and an email hit on different records
TieBetweenKeys(row) ==
    /\ DhcHit(row, hubspot_contacts) # <<>>
    /\ EmailHit(row, hubspot_contacts) # <<>>
    /\ DhcHit(row, hubspot_contacts) # EmailHit(row, hubspot_contacts)

\* C2: a contact whose DHC ID is in the DHC index under X and whose
\* normalized email is in the email index under another Record ID Y is
\* assigned X, never Y.
C2_DhcIdBeforeEmail ==
    ContactsResolved =>
        \A i \in 1..Len(contacts_df) :
            TieBetweenKeys(contacts_df[i]) =>
                contacts_df[i]["Record ID"] = StrCell(DhcHit(contacts_df[i], hubspot_contacts)[1])

\* both loops of match_record_ids have run on a contact with a DHC ID hit and
\* an email hit on different records, and it carries the DHC ID's Record ID
C2_Witness ==
    /\ pc = "matched"
    /\ \E i \in 1..Len(contacts_df) :
        /\ TieBetweenKeys(contacts_df[i])
        /\ contacts_df[i]["Record ID"] = StrCell(DhcHit(contacts_df[i], hubspot_contacts)[1])
        /\ contacts_df[i]["Record ID"] # StrCell(EmailHit(contacts_df[i], hubspot_contacts)[1])

\* C5: an entity whose stronger key is empty or has no hit and whose weaker
\* key is in the destination index is resolved by the weaker key: a contact
\* without a DHC ID hit gets the Record ID of its email, a facility with an
\* empty CCN gets the Record ID of its DHC ID.
C5_FallThrough ==
    /\ ContactsResolved =>
        \A i \in 1..Len(contacts_df) :
            (/\ DhcHit(contacts_df[i], hubspot_contacts) = <<>>
             /\ EmailHit(contacts_df[i], hubspot_contacts) # <<>>)
            => contacts_df[i]["Record ID"] = StrCell(EmailHit(contacts_df[i], hubspot_contacts)[1])
    /\ (pc \in {"facilities", "facilitiesByDhc"}) =>
        \A i \in 1..Len(facilities_df) :
            (/\ ~Usable(KeyText(facilities_df[i]["CCN"]))
             /\ DhcHit(facilities_df[i], hubspot_facilities) # <<>>)
            => facilities_df[i]["Record ID"] = StrCell(DhcHit(facilities_df[i], hubspot_facilities)[1])

\* C6: Record ID matching never raises, whatever the key values are.
C6_MatchingNeverRaises == raised = "" /\ pc # "failed"

\* the destination rows stored under key k
Sharing(hub, Key(_), k) == {j \in 1..Len(hub) : Key(hub[j]) = <<k>>}

\* the Record ID of the first destination row stored under key k
FirstSeen(hub, Key(_), k) ==
    RecordIdText(hub[CHOOSE j \in Sharing(hub, Key, k) : \A m \in Sharing(hub, Key, k) : j <= m])

\* C10: when several destination records share the CCN (facilities), the DHC
\* ID or the email (contacts) a source entity is resolved by, the entity gets
\* the Record ID of the first of them in the order of the export.
C10_FirstSeenDestinationWins ==
    /\ (pc = "facilities") =>
        \A i \in 1..Len(facilities_df) :
            LET ccn == KeyText(facilities_df[i]["CCN"])
            IN  Cardinality(Sharing(hubspot_facilities, CcnKey, ccn)) > 1 =>
                    facilities_df[i]["Record ID"] = StrCell(FirstSeen(hubspot_facilities, CcnKey, ccn))
    /\ ContactsResolved =>
        \A i \in 1..Len(contacts_df) :
            LET probe == DhcProbe(contacts_df[i]["DHC ID"])
                email == EmailText(contacts_df[i]["Email"])
            IN  IF probe # <<>> /\ Sharing(hubspot_contacts, DhcKey, probe[1]) # {}
                THEN Cardinality(Sharing(hubspot_contacts, DhcKey, probe[1])) > 1 =>
                        contacts_df[i]["Record ID"] = StrCell(FirstSeen(hubspot_contacts, DhcKey, probe[1]))
                ELSE Cardinality(Sharing(hubspot_contacts, EmailKey, email)) > 1 =>
                        contacts_df[i]["Record ID"] = StrCell(FirstSeen(hubspot_contacts, EmailKey, email))

(***************************************************************************)
(* Association changes: process_association_changes.py and the             *)
(* process_association_changes step of process_all_data_complete.py, for   *)
(* the Facility-Company associations.  An association row has the columns *)
(* 'Record ID' and 'Association ID'.                                       *)
(***************************************************************************)
MaxDesired == 2   \* rows of the desired association table
MaxCurrent == 2   \* rows of the HubSpot facilities export

\* str.split(sep)
RECURSIVE SplitOn(_, _)
SplitOn(t, sep) ==
    IF \A i \in 1..Len(t) : t[i] # sep THEN <<t>>
    ELSE LET at == CHOOSE i \in 1..Len(t) : t[i] = sep /\ \A j \in 1..(i - 1) : t[j] # sep
         IN  <<SubSeq(t, 1, at - 1)>> \o SplitOn(SubSeq(t, at + 1, Len(t)), sep)

AssociationRow(recordId, associationId) ==
    ("Record ID" :> recordId) @@ ("Association ID" :> associationId)

\* process_association_changes.py lines 26-39: the rows of one export record
SplitRow(row, column) ==
    LET associations == Strip(AsStr(row[column]))
        NonBlank(a) == Strip(a) # <<>>
        Kept(a) == Strip(a) # <<"n", "a", "n">>
        ids == SelectSeq(SelectSeq(SplitOn(associations, ";"), NonBlank), Kept)
    IN  IF Usable(associations)
        THEN [i \in 1..Len(ids) |-> AssociationRow(row["Record ID"], StrCell(Strip(ids[i])))]
        ELSE <<>>

\* process_association_changes.py lines 21-41
RECURSIVE split_semicolon_associations(_, _)
split_semicolon_associations(df, column) ==
    IF df = <<>> THEN <<>>
    ELSE SplitRow(Head(df), column) \o split_semicolon_associations(Tail(df), column)

\* the rows of a desired table with both Record IDs (lines 85-90)
Resolved(row) ==
    NotBlank(row["Facility Record ID"]) /\ NotBlank(row["Company Record ID"])

\* Series.astype(int)
AsInt(c) == IntCell(ToNumeric(c)[1])

\* process_association_changes.py lines 85-90 and 107-111
load_new_associations(df) ==
    LET kept == SelectSeq(df, Resolved)
    IN  [i \in 1..Len(kept) |->
            AssociationRow(AsInt(kept[i]["Facility Record ID"]), AsInt(kept[i]["Company Record ID"]))]

\* lines 134-135: Record ID and Association ID as text with '|' between them
Key(row) == AsStr(row["Record ID"]) \o <<"|">> \o AsStr(row["Association ID"])

Keys(df) == {Key(df[i]) : i \in 1..Len(df)}

\* process_association_changes.py lines 137-146
ToRemove(current, new) ==
    LET Gone(row) == Key(row) \notin Keys(new) IN SelectSeq(current, Gone)
ToAdd(current, new) ==
    LET Missing(row) == Key(row) \notin Keys(current) IN SelectSeq(new, Missing)

\* process_all_data_complete.py lines 969-973
HasAssociations(row) ==
    NotBlank(row["Associated Company IDs"]) /\ ~IsNa(row["Record ID"])

\* process_all_data_complete.py lines 977-989: the rows of one export record
ExplodeRow(row) ==
    LET parts == SplitOn(AsStr(row["Associated Company IDs"]), ";")
        NonBlank(a) == Strip(a) # <<>>
        Numeric(a) == ParseNumber(Strip(a)) # <<>>
        ids == SelectSeq(SelectSeq(parts, NonBlank), Numeric)
    IN  [i \in 1..Len(ids) |->
            AssociationRow(AsInt(row["Record ID"]), IntCell(ParseNumber(Strip(ids[i]))[1]))]

RECURSIVE Explode(_)
Explode(df) == IF df = <<>> THEN <<>> ELSE ExplodeRow(Head(df)) \o Explode(Tail(df))

\* process_all_data_complete.py lines 968-991
CurrentAssociations(hub) == Explode(SelectSeq(hub, HasAssociations))

\* process_all_data_complete.py lines 955-960 and 1000-1004
facility_company_existing_formatted(df) ==
    LET existing == SelectSeq(df, Resolved)
    IN  [i \in 1..Len(existing) |->
            AssociationRow(AsInt(existing[i]["Facility Record ID"]),
                           AsInt(existing[i]["Company Record ID"]))]

\* lines 1022-1026: a placeholder row
Placeholder == AssociationRow(StrCell(<<"T", "B", "D">>), StrCell(<<"T", "B", "D">>))

\* the rows of left without a partner in right (merge how='left', indicator,
\* then _merge == 'left_only')
LeftOnly(left, right) ==
    LET Alone(row) == \A j \in 1..Len(right) : right[j] # row IN SelectSeq(left, Alone)

\* process_all_data_complete.py lines 929-931 and 952-1028
process_facility_company_changes(df, hub) ==
    LET current == CurrentAssociations(hub)
        desired == facility_company_existing_formatted(df)
    IN  IF df = <<>> THEN [add |-> <<>>, remove |-> <<>>]
        ELSE IF desired = <<>> THEN [add |-> [i \in 1..Len(df) |-> Placeholder], remove |-> <<>>]
        ELSE IF current = <<>> THEN [add |-> desired, remove |-> <<>>]
        ELSE [add |-> LeftOnly(desired, current), remove |-> LeftOnly(current, desired)]

(***************************************************************************)
(* SpecAssoc: the desired Facility-Company associations carry their Record *)
(* IDs and the facilities export is loaded; process_association_changes.py *)
(* runs step by step, or the complete pipeline's step runs.                *)
(***************************************************************************)
DesiredRows ==
    {("Facility Record ID" :> f) @@ ("Company Record ID" :> c) :
        f \in {StrCell(<<>>), IntCell(1), FloatCell(2)},
        c \in {StrCell(<<>>), IntCell(5), IntCell(6)}}

HubAssociationRows ==
    {("Associated Company IDs" :> a) :
        a \in {NaN, IntCell(5), FloatCell(5), StrCell(<<"5", ";", "6">>),
               StrCell(<<"6", ";", " ">>), StrCell(<<"5", ";", "5">>)}}

InitAssoc ==
    /\ pc = "associations"
    /\ run = 1
    /\ ExtraIdle
    /\ ChangesIdle
    /\ NormIdle
    /\ ImportIdle
    /\ facilities_df = <<>>
    /\ companies_df = <<>>
    /\ contacts_df = <<>>
    /\ hubspot_companies = <<>>
    /\ hubspot_contacts = <<>>
    /\ raised = ""
    /\ facility_company_df \in SeqsUpTo(DesiredRows, MaxDesired)
    /\ hubspot_facilities \in {Exported(t) : t \in SeqsUpTo(HubAssociationRows, MaxCurrent)}
    /\ current_df = <<>>
    /\ new_df = <<>>
    /\ add_df = <<>>
    /\ remove_df = <<>>

exceptAssoc ==
    <<run, normVars, importVars, facilities_df, companies_df, contacts_df, hubVars,
      facility_company_df, changeVars, extraVars>>

\* process_association_changes.py lines 43-73
analyze_current_associations ==
    /\ pc = "associations"
    /\ current_df' = split_semicolon_associations(hubspot_facilities, "Associated Company IDs")
    /\ pc' = "analyzed"
    /\ UNCHANGED <<exceptAssoc, new_df, add_df, remove_df, raised>>

\* process_association_changes.py lines 75-127
LoadNewAssociations ==
    /\ pc = "analyzed"
    /\ new_df' = load_new_associations(facility_company_df)
    /\ pc' = "newLoaded"
    /\ UNCHANGED <<exceptAssoc, current_df, add_df, remove_df, raised>>

\* process_association_changes.py lines 129-150; a table made from no rows has
\* no 'Record ID' column and line 134 raises KeyError. Lines 134-135 add the
\* column 'Key' to the two tables passed; only the tables returned lose it
compare_associations ==
    /\ pc = "newLoaded"
    /\ IF current_df = <<>>
       THEN /\ raised' = "KeyError"
            /\ pc' = "failed"
            /\ UNCHANGED <<current_df, new_df, add_df, remove_df>>
       ELSE /\ current_df' = [i \in 1..Len(current_df) |->
                                current_df[i] @@ ("Key" :> StrCell(Key(current_df[i])))]
            /\ new_df' = [i \in 1..Len(new_df) |->
                            new_df[i] @@ ("Key" :> StrCell(Key(new_df[i])))]
            /\ remove_df' = ToRemove(current_df, new_df)
            /\ add_df' = ToAdd(current_df, new_df)
            /\ pc' = "compared"
            /\ UNCHANGED raised
    /\ UNCHANGED exceptAssoc

\* process_all_data_complete.py lines 913-950; with an empty desired table
\* the type is skipped (line 929) and no current table is built
process_association_changes ==
    /\ pc = "associations"
    /\ current_df' = IF facility_company_df = <<>> THEN current_df
                     ELSE CurrentAssociations(hubspot_facilities)
    /\ add_df' = process_facility_company_changes(facility_company_df, hubspot_facilities).add
    /\ remove_df' = process_facility_company_changes(facility_company_df, hubspot_facilities).remove
    /\ pc' = "changes"
    /\ UNCHANGED <<exceptAssoc, new_df, raised>>

NextAssoc ==
    \/ analyze_current_associations
    \/ LoadNewAssociations
    \/ compare_associations
    \/ process_association_changes

SpecAssoc == InitAssoc /\ [][NextAssoc]_vars

(***************************************************************************)
(* Properties of the association diff (SpecAssoc).                         *)
(***************************************************************************)
\* an edge is a pair of numbers, <<>> standing for an identifier that is none
EdgeOf(recordId, associationId) == <<ToNumeric(recordId), ToNumeric(associationId)>>

\* the edges of the rows of an output table
EdgesOf(df) == {EdgeOf(df[i]["Record ID"], df[i]["Association ID"]) : i \in 1..Len(df)}

\* the desired edges: the rows of the desired table with both endpoints resolved
DesiredEdges ==
    {EdgeOf(facility_company_df[i]["Facility Record ID"], facility_company_df[i]["Company Record ID"]) :
        i \in {j \in 1..Len(facility_company_df) : Resolved(facility_company_df[j])}}

\* the identifiers packed in a cell of the export
PackedIds(c) ==
    LET parts == SplitOn(AsStr(FillNa(c)), ";")
    IN  {ParseNumber(parts[i]) : i \in 1..Len(parts)} \ {<<>>}

\* the current edges: one per identifier packed in the field of a record
CurrentEdges ==
    UNION {{<<ToNumeric(hubspot_facilities[i]["Record ID"]), a>> :
                a \in PackedIds(hubspot_facilities[i]["Associated Company IDs"])} :
           i \in 1..Len(hubspot_facilities)}

\* C3: the diff never fails and, for every pair of current and desired edge
\* sets (empty ones included), the add output is the desired edges that are
\* not current and the remove output is the current edges that are not desired.
C3_AssociationDiff ==
    /\ raised = ""
    /\ (pc \in {"compared", "changes"}) =>
        /\ EdgesOf(add_df) = DesiredEdges \ CurrentEdges
        /\ EdgesOf(remove_df) = CurrentEdges \ DesiredEdges

(***************************************************************************)
(* SpecPipeline: main of process_all_data_complete.py on the facilities    *)
(* and their Facility-Company associations; its outputs are imported into  *)
(* HubSpot, a new export is taken and the pipeline runs again.             *)
(***************************************************************************)
MaxExported == 1   \* facility records of the first HubSpot export

\* process_all_data_complete.py lines 852-857, 874, 879 and 884: the Record ID
\* that .map(dict).fillna('') gives for a DHC ID
LookupRecordId(hub, dhc) ==
    LET hits == {i \in 1..Len(hub) :
                    /\ NotBlank(hub[i]["DHC ID"])
                    /\ NotBlank(hub[i]["Record ID"])
                    /\ ToNumeric(dhc) # <<>>
                    /\ ToNumeric(hub[i]["DHC ID"]) = ToNumeric(dhc)}
    IN  IF hits = {} THEN StrCell(<<>>)
        ELSE hub[CHOOSE i \in hits : \A j \in hits : j <= i]["Record ID"]

\* process_all_data_complete.py lines 841-911
\* (lines 874-884: a DHC ID without a key makes .map give NaN, the column of
\* the numbers found becomes float64, and fillna('') fills the gaps)
match_associations_with_record_ids(df, facilities, companies) ==
    LET Mapped(hub, col) ==
            LET found == [i \in 1..Len(df) |-> LookupRecordId(hub, df[i][col])]
                gap == \E i \in 1..Len(df) : found[i] = StrCell(<<>>)
                numeric == \A i \in 1..Len(df) :
                              found[i] = StrCell(<<>>) \/ found[i].k \in {"int", "float"}
            IN  [i \in 1..Len(df) |->
                    IF gap /\ numeric /\ found[i].k = "int"
                    THEN FloatCell(found[i].n) ELSE found[i]]
    IN  [i \in 1..Len(df) |->
            [c \in {"Facility DHC ID", "Company DHC ID", "Facility Record ID", "Company Record ID"} |->
                CASE c = "Facility Record ID" -> Mapped(facilities, "Facility DHC ID")[i]
                  [] c = "Company Record ID" -> Mapped(companies, "Company DHC ID")[i]
                  [] OTHER -> df[i][c]]]

\* the identifiers of a set as a packed field, in increasing order
RECURSIVE Pack(_)
Pack(ids) ==
    IF ids = {} THEN <<>>
    ELSE LET least == CHOOSE a \in ids : \A b \in ids : a[1] <= b[1]
             rest == Pack(ids \ {least})
         IN  IF rest = <<>> THEN Digits(least[1]) ELSE Digits(least[1]) \o <<";">> \o rest

\* the import of the new records file: every row becomes a record with the
\* next free Record ID and no association
CreateRecords(hub, new) ==
    hub \o [i \in 1..Len(new) |->
              ("Record ID" :> IntCell(Len(hub) + i)) @@ ("Associated Company IDs" :> NaN) @@ new[i]]

\* the import of the updates file: the columns of a row overwrite those of
\* the record with its Record ID
UpdateRecords(hub, updates) ==
    [i \in 1..Len(hub) |->
        LET hits == {j \in 1..Len(updates) :
                        ToNumeric(updates[j]["Record ID"]) = ToNumeric(hub[i]["Record ID"])}
            update == updates[CHOOSE j \in hits : \A k \in hits : j <= k]
        IN  IF hits = {} THEN hub[i]
            ELSE [c \in DOMAIN hub[i] |->
                    IF c \in (DOMAIN update) \ {"Record ID"} THEN update[c] ELSE hub[i][c]]]

\* the import of the remove and add files: the numeric rows are edges that
\* leave or join the packed field of their record
ApplyAssociations(hub, add, remove) ==
    [i \in 1..Len(hub) |->
        LET Ids(df) == {ToNumeric(df[j]["Association ID"]) :
                            j \in {k \in 1..Len(df) :
                                ToNumeric(df[k]["Record ID"]) = ToNumeric(hub[i]["Record ID"])}} \ {<<>>}
            parts == SplitOn(AsStr(FillNa(hub[i]["Associated Company IDs"])), ";")
            packed == {ParseNumber(parts[j]) : j \in 1..Len(parts)} \ {<<>>}
            ids == (packed \ Ids(remove)) \cup Ids(add)
        IN  [hub[i] EXCEPT !["Associated Company IDs"] =
                IF ids = {} THEN NaN ELSE StrCell(Pack(ids))]]

PipelineFacilities ==
    {("DHC ID" :> IntCell(d)) @@ ("CCN" :> c) @@ ("Total Beds" :> IntCell(12)) :
        d \in {7, 8}, c \in {NaN, StrCell(<<"1", "2">>)}}

ExportedFacilities ==
    {("DHC ID" :> d) @@ ("CCN" :> c) @@ ("Total Beds" :> b) @@ ("Associated Company IDs" :> a) :
        d \in {NaN, IntCell(7)}, c \in {NaN, StrCell(<<"1", "2">>)},
        b \in {NaN, IntCell(12)}, a \in {NaN, StrCell(<<"5">>)}}

PipelineAssociations ==
    {("Facility DHC ID" :> IntCell(f)) @@ ("Company DHC ID" :> IntCell(9)) @@
     ("Facility Record ID" :> StrCell(<<>>)) @@ ("Company Record ID" :> StrCell(<<>>)) :
        f \in {7, 8}}

\* the company of the associations is record 5 of the companies export
ExportedCompany == ("Record ID" :> IntCell(5)) @@ ("DHC ID" :> IntCell(9))

InitPipeline ==
    /\ pc = "start"
    /\ run = 1
    /\ ExtraIdle
    /\ ChangesIdle
    /\ NormIdle
    /\ formatted = <<>>
    /\ hubspot = <<>>
    /\ facilitiesNew = <<>>
    /\ facilitiesExisting = <<>>
    /\ newFile = <<>>
    /\ updatesFile = <<>>
    /\ facilities_df \in {Unmatched(t) : t \in SeqsUpTo(PipelineFacilities, MaxSource)}
    /\ hubspot_facilities \in {Exported(t) : t \in SeqsUpTo(ExportedFacilities, MaxExported)}
    /\ companies_df = <<>>
    /\ contacts_df = <<>>
    /\ hubspot_companies = <<ExportedCompany>>
    /\ hubspot_contacts = <<>>
    /\ raised = ""
    /\ facility_company_df \in SeqsUpTo(PipelineAssociations, MaxDesired)
    /\ current_df = <<>>
    /\ new_df = <<>>
    /\ add_df = <<>>
    /\ remove_df = <<>>

exceptPipeline ==
    <<normVars, formatted, hubspot, companies_df, contacts_df, hubspot_companies,
      hubspot_contacts, new_df, changeVars, extraVars>>

\* process_all_data_complete.py lines 1236-1238: match_record_ids, lines 293
\* and 297-313 for the facilities
PipelineMatchRecordIds ==
    /\ pc = "start"
    /\ facilities_df' =
          MatchByDhcId([i \in 1..Len(facilities_df) |-> SetRecordId(facilities_df[i], <<>>)],
                       hubspot_facilities)
    /\ pc' = "matched"
    /\ UNCHANGED <<exceptPipeline, raised, run, hubspot_facilities, facilitiesNew, facilitiesExisting,
                   newFile, updatesFile, assocVars>>

\* process_all_data_complete.py line 1248: create_import_files, lines 502-512,
\* 544-565 and 609-635 for the facilities
PipelineCreateImportFiles ==
    /\ pc = "matched"
    /\ \E new \in {DropColumn(SelectSeq(facilities_df, IsNewRow), "Record ID")},
          detected \in {DetectChanges(SelectSeq(facilities_df, IsExistingRow),
                                      hubspot_facilities, "facilities")} :
           IF detected.raised = ""
           THEN /\ facilitiesNew' = CleanFacilities(new)
                /\ newFile' = CleanFacilities(new)
                /\ facilitiesExisting' = IntegerRecordIds(detected.rows)
                /\ updatesFile' = DropDuplicates(CleanFacilities(IntegerRecordIds(detected.rows)),
                                                 "Record ID")
                /\ pc' = "imported"
                /\ UNCHANGED raised
           ELSE /\ raised' = detected.raised
                /\ pc' = "failed"
                /\ UNCHANGED <<facilitiesNew, facilitiesExisting, newFile, updatesFile>>
    /\ UNCHANGED <<exceptPipeline, run, facilities_df, hubspot_facilities, facility_company_df,
                   current_df, add_df, remove_df>>

\* process_all_data_complete.py lines 1258-1260
PipelineMatchAssociations ==
    /\ pc = "imported"
    /\ facility_company_df' =
          match_associations_with_record_ids(facility_company_df, hubspot_facilities,
                                             hubspot_companies)
    /\ pc' = "associationsMatched"
    /\ UNCHANGED <<exceptPipeline, raised, run, facilities_df, hubspot_facilities, facilitiesNew,
                   facilitiesExisting, newFile, updatesFile, current_df, add_df, remove_df>>

\* process_all_data_complete.py lines 1263-1265; with an empty desired table
\* the type is skipped (line 929) and no current table is built
PipelineAssociationChanges ==
    /\ pc = "associationsMatched"
    /\ current_df' = IF facility_company_df = <<>> THEN current_df
                     ELSE CurrentAssociations(hubspot_facilities)
    /\ add_df' = process_facility_company_changes(facility_company_df, hubspot_facilities).add
    /\ remove_df' = process_facility_company_changes(facility_company_df, hubspot_facilities).remove
    /\ pc' = "done"
    /\ UNCHANGED <<exceptPipeline, raised, run, facilities_df, hubspot_facilities, facilitiesNew,
                   facilitiesExisting, newFile, updatesFile, facility_company_df>>

\* the outputs of the first run are imported (new records, updates, removed
\* and added associations, in the order the scripts recommend) and the next
\* run starts from the new export
ImportIntoHubspot ==
    /\ pc = "done"
    /\ run = 1
    /\ hubspot_facilities' =
          ApplyAssociations(UpdateRecords(CreateRecords(hubspot_facilities, newFile), updatesFile),
                            add_df, remove_df)
    /\ run' = 2
    /\ pc' = "start"
    /\ facilitiesNew' = <<>>
    /\ facilitiesExisting' = <<>>
    /\ newFile' = <<>>
    /\ updatesFile' = <<>>
    /\ current_df' = <<>>
    /\ add_df' = <<>>
    /\ remove_df' = <<>>
    /\ UNCHANGED <<exceptPipeline, raised, facilities_df, facility_company_df>>

NextPipeline ==
    \/ PipelineMatchRecordIds
    \/ PipelineCreateImportFiles
    \/ PipelineMatchAssociations
    \/ PipelineAssociationChanges
    \/ ImportIntoHubspot

SpecPipeline == InitPipeline /\ [][NextPipeline]_vars

(***************************************************************************)
(* Properties of the re-run (SpecPipeline).                                *)
(***************************************************************************)
\* C1: after the outputs of a run are applied to the destination, a second
\* run on the same source classifies no entity as an update and has nothing
\* to add and nothing to remove.
C1_SecondRunIsClean ==
    (run = 2 /\ pc = "done") =>
        /\ facilitiesExisting = <<>>
        /\ add_df = <<>>
        /\ remove_df = <<>>

(***************************************************************************)
(* One row per source entity (SpecImport).                                 *)
(***************************************************************************)
\* C11: a source entity carries one Record ID and is never multiply matched:
\* change detection yields at most one row for each matched facility it was
\* given, also when the destination snapshot holds a Record ID twice.
C11_SingleDestinationId ==
    pc = "detected" =>
        Len(facilitiesExisting) <= Len(SelectSeq(formatted, IsExistingRow))

\* C12: a source entity that no strategy matched has an empty Record ID and
\* is in the New output of its type: it is in the new-records file, and it
\* is not in the updates file.
C12_NoMatchMeansNew ==
    pc \in {"saved", "standalone"} =>
        \A i \in 1..Len(formatted) :
            IsNewRow(formatted[i]) =>
                /\ \E j \in 1..Len(newFile) :
                        newFile[j] = DropColumn(<<formatted[i]>>, "Record ID")[1]
                /\ \A j \in 1..Len(updatesFile) :
                        \E c \in DOMAIN formatted[i] \ {"Record ID"} :
                            updatesFile[j][c] # formatted[i][c]

\* the row of a source facility in the New set
EmittedAsNew(e) ==
    \E i \in 1..Len(facilitiesNew) :
        \A c \in (DOMAIN e) \ {"Record ID"} : facilitiesNew[i][c] = e[c]

\* a field of the comparison set differs from the HubSpot record of e, or
\* from the empty value when HubSpot has no record with its Record ID
HasChangedField(e) ==
    IF Partners(e) = {}
    THEN \E f \in ComparedFields(e) : NormalizeNew(f, e[f]) # <<>>
    ELSE \E h \in Partners(e) : DiffersFrom(e, h)

\* C13: New, Update and Unchanged are disjoint: no facility is both in the
\* New set and in the Update set, a row of New has no Record ID, and a row of
\* Update has a non-empty Record ID and at least one changed field.
C13_DisjointClassification ==
    (pc \in {"detected", "standalone"}) =>
        /\ \A i \in 1..Len(formatted) :
                ~(IsNewRow(formatted[i]) /\ EmittedAsNew(formatted[i])
                    /\ EmittedAsUpdate(formatted[i]))
        /\ \A i \in 1..Len(facilitiesNew) : "Record ID" \notin DOMAIN facilitiesNew[i]
        /\ \A e \in MatchedFacilities :
                EmittedAsUpdate(e) => IsExistingRow(e) /\ HasChangedField(e)

(***************************************************************************)
(* Fields that the destination does not have (SpecImport).                 *)
(***************************************************************************)
\* the fields of the comparison set that facility e has and that no row of
\* the HubSpot export has
AbsentFields(e) ==
    {f \in ComparedFields(e) : \A i \in 1..Len(hubspot) : f \notin DOMAIN hubspot[i]}

\* C14: a field of the comparison set that is absent on the HubSpot side is
\* compared as the empty value: a matched facility with a non-empty value in
\* such a field is reported as an update.
C14_AbsentFieldIsEmpty ==
    pc = "detected" =>
        \A e \in MatchedFacilities :
            (/\ Partners(e) # {}
             /\ \E f \in AbsentFields(e) : NormalizeNew(f, e[f]) # <<>>)
                => EmittedAsUpdate(e)

(***************************************************************************)
(* Properties of the association outputs (SpecAssoc).                      *)
(***************************************************************************)
\* both endpoints of an output row are identifiers of records
ResolvedEdge(row) ==
    ToNumeric(row["Record ID"]) # <<>> /\ ToNumeric(row["Association ID"]) # <<>>

\* C15: an edge is in the add output or in the remove output only if both
\* its endpoints are resolved Record IDs: desired edges with an unresolved
\* endpoint are filtered out and no placeholder row is ever emitted.
C15_OnlyResolvedEdges ==
    pc \in {"compared", "changes"} =>
        /\ \A i \in 1..Len(add_df) : ResolvedEdge(add_df[i])
        /\ \A i \in 1..Len(remove_df) : ResolvedEdge(remove_df[i])

(***************************************************************************)
(* The three association types of process_all_data_complete.py.            *)
(***************************************************************************)
MaxEdges == 1      \* rows of a desired association table
MaxRecords == 1    \* rows of an export

\* lines 1033-1038 and 1078-1082, 1111-1116 and 1122-1126: the desired rows
\* with both Record IDs, formatted for the comparison
ContactFormatted(df, column) ==
    LET Both(row) == NotBlank(row["Contact Record ID"]) /\ NotBlank(row[column])
        existing == SelectSeq(df, Both)
    IN  [i \in 1..Len(existing) |->
            AssociationRow(AsInt(existing[i]["Contact Record ID"]), AsInt(existing[i][column]))]

\* lines 1047-1069 and 1129-1151: the same expansion as for facilities, of the
\* given packed column of the contacts export
CurrentContactAssociations(hub, column) ==
    CurrentAssociations([i \in 1..Len(hub) |->
        ("Record ID" :> hub[i]["Record ID"]) @@ ("Associated Company IDs" :> hub[i][column])])

\* process_all_data_complete.py lines 1030-1106
process_contact_facility_changes(df, hub) ==
    LET current == CurrentContactAssociations(hub, "Associated Facility IDs")
        desired == ContactFormatted(df, "Facility Record ID")
    IN  IF df = <<>> THEN [add |-> <<>>, remove |-> <<>>]
        ELSE IF desired = <<>> THEN [add |-> [i \in 1..Len(df) |-> Placeholder], remove |-> <<>>]
        ELSE IF current = <<>> THEN [add |-> desired, remove |-> <<>>]
        ELSE [add |-> LeftOnly(desired, current), remove |-> LeftOnly(current, desired)]

\* process_all_data_complete.py lines 1108-1168
process_contact_company_changes(df, hub) ==
    LET current == CurrentContactAssociations(hub, "Associated Company IDs")
        desired == ContactFormatted(df, "Company Record ID")
    IN  IF desired = <<>> THEN [add |-> <<>>, remove |-> <<>>]
        ELSE IF current = <<>> THEN [add |-> desired, remove |-> <<>>]
        ELSE [add |-> LeftOnly(desired, current), remove |-> LeftOnly(current, desired)]

\* lines 924-941: the changes of every type whose desired table is not empty
AssociationChanges(fc, cf, cc, hubFacilities, hubContacts) ==
    LET types == {t \in {"facility_company", "contact_facility", "contact_company"} :
                    \/ t = "facility_company" /\ fc # <<>>
                    \/ t = "contact_facility" /\ cf # <<>>
                    \/ t = "contact_company" /\ cc # <<>>}
    IN  [t \in types |->
            CASE t = "facility_company" -> process_facility_company_changes(fc, hubFacilities)
              [] t = "contact_facility" -> process_contact_facility_changes(cf, hubContacts)
              [] OTHER -> process_contact_company_changes(cc, hubContacts)]

\* the export has the column (an export without rows has it)
HasColumn(hub, column) == \A i \in 1..Len(hub) : column \in DOMAIN hub[i]

(***************************************************************************)
(* SpecChanges: process_association_changes of the complete pipeline, with *)
(* the three desired tables carrying their Record IDs.                     *)
(***************************************************************************)
DesiredPairs(a, b) ==
    {(a :> x) @@ (b :> y) : x \in {StrCell(<<>>), IntCell(1)}, y \in {IntCell(5)}}

FacilityExports ==
    {Exported(t) : t \in SeqsUpTo({("Associated Company IDs" :> c) :
                                    c \in {NaN, IntCell(5)}},
                                  MaxRecords)}
        \cup {<<("Record ID" :> IntCell(1))>>}

ContactExports ==
    {Exported(t) : t \in SeqsUpTo(
        {("Associated Facility IDs" :> f) @@ ("Associated Company IDs" :> c) :
            f \in {NaN, IntCell(5)}, c \in {NaN, IntCell(5)}}
            \ {("Associated Facility IDs" :> NaN) @@ ("Associated Company IDs" :> NaN)},
        MaxRecords)}
        \cup {<<("Record ID" :> IntCell(1)) @@ ("Associated Company IDs" :> IntCell(5))>>,
              <<("Record ID" :> IntCell(1)) @@ ("Associated Facility IDs" :> IntCell(5))>>}

InitChanges ==
    /\ pc = "changesStart"
    /\ run = 1
    /\ ExtraIdle
    /\ NormIdle
    /\ ImportIdle
    /\ facilities_df = <<>>
    /\ companies_df = <<>>
    /\ contacts_df = <<>>
    /\ hubspot_companies = <<>>
    /\ raised = ""
    /\ current_df = <<>>
    /\ new_df = <<>>
    /\ add_df = <<>>
    /\ remove_df = <<>>
    /\ facility_company_df \in SeqsUpTo(DesiredPairs("Facility Record ID", "Company Record ID"), MaxEdges)
    /\ contact_facility_df \in SeqsUpTo(DesiredPairs("Contact Record ID", "Facility Record ID"), MaxEdges)
    /\ contact_company_df \in SeqsUpTo(
            {r \in DesiredPairs("Contact Record ID", "Company Record ID") :
                NotBlank(r["Contact Record ID"])}, MaxEdges)
    /\ hubspot_facilities \in FacilityExports
    /\ hubspot_contacts \in ContactExports
    /\ association_changes = <<>>
    /\ exportFound \in BOOLEAN

exceptChanges ==
    <<run, normVars, importVars, facilities_df, companies_df, contacts_df, hubVars,
      assocVars, contact_facility_df, contact_company_df, exportFound, extraVars>>

\* lines 917-920: the exports are read
ReadExports ==
    /\ pc = "changesStart"
    /\ exportFound
    /\ pc' = "exportsRead"
    /\ UNCHANGED <<exceptChanges, association_changes, raised>>

\* lines 921-923 and 1190-1205: without the exports the three desired tables
\* are written as they are, as add-only files
save_association_files ==
    /\ pc = "changesStart"
    /\ ~exportFound
    /\ association_changes' =
            [t \in {"facility_company", "contact_facility", "contact_company"} |->
                [add |-> CASE t = "facility_company" -> facility_company_df
                           [] t = "contact_facility" -> contact_facility_df
                           [] OTHER -> contact_company_df,
                 remove |-> <<>>]]
    /\ pc' = "addOnly"
    /\ UNCHANGED <<exceptChanges, raised>>

\* lines 928-931; line 970 raises KeyError when the export has no
\* 'Associated Company IDs' column
FacilityCompanyChanges ==
    /\ pc = "exportsRead"
    /\ IF facility_company_df # <<>> /\ ~HasColumn(hubspot_facilities, "Associated Company IDs")
       THEN /\ raised' = "KeyError"
            /\ pc' = "changesFailed"
            /\ UNCHANGED association_changes
       ELSE /\ association_changes' =
                    AssociationChanges(facility_company_df, <<>>, <<>>, hubspot_facilities, hubspot_contacts)
            /\ pc' = "facilityCompany"
            /\ UNCHANGED raised
    /\ UNCHANGED exceptChanges

\* lines 933-936; line 1048 raises KeyError when the contacts export has no
\* 'Associated Facility IDs' column
ContactFacilityChanges ==
    /\ pc = "facilityCompany"
    /\ IF contact_facility_df # <<>> /\ ~HasColumn(hubspot_contacts, "Associated Facility IDs")
       THEN /\ raised' = "KeyError"
            /\ pc' = "changesFailed"
            /\ UNCHANGED association_changes
       ELSE /\ association_changes' =
                    AssociationChanges(facility_company_df, contact_facility_df, <<>>,
                                       hubspot_facilities, hubspot_contacts)
            /\ pc' = "contactFacility"
            /\ UNCHANGED raised
    /\ UNCHANGED exceptChanges

\* lines 938-941; line 1130 raises KeyError when a desired row is resolved
\* and the contacts export has no 'Associated Company IDs' column
ContactCompanyChanges ==
    /\ pc = "contactFacility"
    /\ IF /\ ContactFormatted(contact_company_df, "Company Record ID") # <<>>
          /\ ~HasColumn(hubspot_contacts, "Associated Company IDs")
       THEN /\ raised' = "KeyError"
            /\ pc' = "changesFailed"
            /\ UNCHANGED association_changes
       ELSE /\ association_changes' =
                    AssociationChanges(facility_company_df, contact_facility_df, contact_company_df,
                                       hubspot_facilities, hubspot_contacts)
            /\ pc' = "contactCompany"
            /\ UNCHANGED raised
    /\ UNCHANGED exceptChanges

\* lines 943-950 and 1170-1188: every non-empty add and remove table is written
save_processed_associations ==
    /\ pc = "contactCompany"
    /\ pc' = "changesSaved"
    /\ UNCHANGED <<exceptChanges, association_changes, raised>>

NextChanges ==
    \/ ReadExports
    \/ save_association_files
    \/ FacilityCompanyChanges
    \/ ContactFacilityChanges
    \/ ContactCompanyChanges
    \/ save_processed_associations

SpecChanges == InitChanges /\ [][NextChanges]_vars

(***************************************************************************)
(* Properties of the three association types (SpecChanges).                *)
(***************************************************************************)
\* the desired table of an association type
DesiredTable(t) ==
    CASE t = "facility_company" -> facility_company_df
      [] t = "contact_facility" -> contact_facility_df
      [] OTHER -> contact_company_df

\* the current Facility-Company edges cannot be obtained: the exports are
\* missing, or the facilities export has no packed association column
SourceUnavailable ==
    ~exportFound \/ ~HasColumn(hubspot_facilities, "Associated Company IDs")

\* C16: when the current edges cannot be obtained the step does not fail and
\* ends in the add-only mode, in which the add output of every type is its
\* whole desired table and the remove output is empty.
C16_AddOnlyDegradation ==
    SourceUnavailable =>
        /\ raised = ""
        /\ pc \in {"changesSaved", "addOnly"} =>
            /\ pc = "addOnly"
            /\ \A t \in DOMAIN association_changes :
                /\ association_changes[t].add = DesiredTable(t)
                /\ association_changes[t].remove = <<>>

(***************************************************************************)
(* Expansion of the packed association field (SpecAssoc).                  *)
(***************************************************************************)
\* C17: the packed field of a record is expanded into exactly one edge for
\* each distinct non-blank identifier in it: no identifier is lost, blank
\* entries give no edge, and a repeated identifier gives a single edge.
C17_PackedExpansion ==
    (pc = "analyzed" \/ (pc = "changes" /\ facility_company_df # <<>>)) =>
        /\ EdgesOf(current_df) = CurrentEdges
        /\ \A i, j \in 1..Len(current_df) :
                (EdgeOf(current_df[i]["Record ID"], current_df[i]["Association ID"])
                    = EdgeOf(current_df[j]["Record ID"], current_df[j]["Association ID"]))
                    => i = j

\* C18: in one diff no edge, as the pair of its Record ID and Association ID,
\* is both in the add output and in the remove output.
C18_AddRemoveDisjoint ==
    pc \in {"compared", "changes"} => EdgesOf(add_df) \cap EdgesOf(remove_df) = {}

\* a desired table of another type: empty, or the edge from record 1 to
\* record 5
OtherDesired(a, b) == {<<>>, <<(a :> IntCell(1)) @@ (b :> IntCell(5))>>}

\* the contacts export of this run with another content of the packed column
\* of another type, or without that column
OtherContactExports(column) ==
    {[i \in 1..Len(hubspot_contacts) |->
        [c \in (DOMAIN hubspot_contacts[i]) \cup {column} |->
            IF c = column THEN v ELSE hubspot_contacts[i][c]]] : v \in {NaN, IntCell(5)}}
        \cup {DropColumn(hubspot_contacts, column)}

\* the changes of type t in a result, none if the type was not processed
ChangesOf(changes, t) == IF t \in DOMAIN changes THEN <<changes[t]>> ELSE <<>>

\* the type at which the step ends with KeyError (lines 970, 1048, 1130), ""
\* if it reaches save_processed_associations
FailsAt(fc, cf, cc, hubFacilities, hubContacts) ==
    IF fc # <<>> /\ ~HasColumn(hubFacilities, "Associated Company IDs")
    THEN "facility_company"
    ELSE IF cf # <<>> /\ ~HasColumn(hubContacts, "Associated Facility IDs")
    THEN "contact_facility"
    ELSE IF /\ ContactFormatted(cc, "Company Record ID") # <<>>
            /\ ~HasColumn(hubContacts, "Associated Company IDs")
    THEN "contact_company"
    ELSE ""

\* the changes that a run on the given inputs hands to
\* save_processed_associations: none when the step ends with KeyError
SavedChanges(fc, cf, cc, hubFacilities, hubContacts) ==
    IF FailsAt(fc, cf, cc, hubFacilities, hubContacts) # "" THEN <<>>
    ELSE AssociationChanges(fc, cf, cc, hubFacilities, hubContacts)

\* the output of type t of a run on the given inputs is the output of type t
\* of this run
SameChanges(t, fc, cf, cc, hubFacilities, hubContacts) ==
    ChangesOf(SavedChanges(fc, cf, cc, hubFacilities, hubContacts), t)
        = ChangesOf(IF pc = "changesSaved" THEN association_changes ELSE <<>>, t)

\* C19: the changes of one association type depend only on the desired and
\* the current edges of that type: when a run with the exports has ended,
\* saved or failed, a run with any other desired tables and any other
\* current edges of the other two types, edges with the same endpoint
\* identifiers included, gives the same add and remove outputs of the type.
C19_PerTypeIndependence ==
    pc \in {"changesSaved", "changesFailed"} =>
        /\ \A cf \in OtherDesired("Contact Record ID", "Facility Record ID"),
              cc \in OtherDesired("Contact Record ID", "Company Record ID"),
              hc \in ContactExports :
                SameChanges("facility_company", facility_company_df, cf, cc, hubspot_facilities, hc)
        /\ \A fc \in OtherDesired("Facility Record ID", "Company Record ID"),
              cc \in OtherDesired("Contact Record ID", "Company Record ID"),
              hf \in FacilityExports,
              hc \in OtherContactExports("Associated Company IDs") :
                SameChanges("contact_facility", fc, contact_facility_df, cc, hf, hc)
        /\ \A fc \in OtherDesired("Facility Record ID", "Company Record ID"),
              cf \in OtherDesired("Contact Record ID", "Facility Record ID"),
              hf \in FacilityExports,
              hc \in OtherContactExports("Associated Facility IDs") :
                SameChanges("contact_company", fc, cf, contact_company_df, hf, hc)

(***************************************************************************)
(* Order of the stages in a run (SpecPipeline).                            *)
(***************************************************************************)
\* a row of the change detector's result is a facility of this run whose
\* Record ID is not empty
DetectedIsResolved(row, facilities) ==
    /\ NotBlank(row["Record ID"])
    /\ \E i \in 1..Len(facilities) :
        /\ NotBlank(facilities[i]["Record ID"])
        /\ RecordIdKey(facilities[i]["Record ID"]) = RecordIdKey(row["Record ID"])
        /\ facilities[i]["DHC ID"] = row["DHC ID"]

\* C20: in every run change detection starts only when match_record_ids has
\* completed, and it is given only facilities with a non-empty Record ID:
\* every step that detects changes is taken from the state the resolver
\* left, and every row it reports is such a facility.
C20_DetectAfterResolve ==
    [][pc' = "imported" =>
        /\ pc = "matched"
        /\ \A i \in 1..Len(facilitiesExisting') :
                DetectedIsResolved(facilitiesExisting'[i], facilities_df)]_vars

\* in the second run one facility was matched and reported as changed while
\* the other had no Record ID and went to the new records
C20_Witness ==
    /\ pc = "imported"
    /\ run = 2
    /\ facilitiesExisting # <<>>
    /\ \E i \in 1..Len(facilities_df) : ~NotBlank(facilities_df[i]["Record ID"])
    /\ \E i \in 1..Len(facilities_df) : NotBlank(facilities_df[i]["Record ID"])

(***************************************************************************)
(* The change detector called on unresolved entities (SpecImport).         *)
(***************************************************************************)
\* C21: when the change detector is called on an entity without a Record ID
\* it reports a fatal error to its caller: the call ends with an exception.
\* (a missing Record ID reads '<NA>' in the table once line 427 has run)
C21_UnresolvedIsFatal ==
    (pc = "invoked" /\ \E i \in 1..Len(formatted) :
            \/ IsNewRow(formatted[i])
            \/ formatted[i]["Record ID"] = StrCell(<<"<", "N", "A", ">">>))
        => raised # ""

(***************************************************************************)
(* SpecIndex: match_contact_record_ids of process_contacts.py, one row of  *)
(* one loop at a step: the DHC ID dict is filled, the contacts are looked  *)
(* up in it, the Email dict is filled, the unmatched contacts are looked   *)
(* up in it.                                                               *)
(***************************************************************************)
MaxIndexed == 2    \* rows of gemini/contacts.csv
MaxLooked == 1     \* rows of formatted_contacts.csv

\* dict[key] = record_id
Put(index, key, recordId) ==
    [k \in (DOMAIN index) \cup {key} |-> IF k = key THEN recordId ELSE index[k]]

\* a changed loop end: the loop stops after its first row
LoopDoneEarly(rows, i) == i >= 1 \/ i = Len(rows)

\* `for idx, row in rows.iterrows()` has no row left
LoopDone(rows, i) == i = Len(rows)

\* the table that the loop at this position iterates
LoopRows ==
    IF pc \in {"buildDhc", "buildEmail"} THEN hubspot_contacts ELSE contacts_df

InitIndex ==
    /\ pc = "buildDhc"
    /\ run = 1
    /\ NormIdle
    /\ ImportIdle
    /\ AssocIdle
    /\ ChangesIdle
    /\ IndexIdle
    /\ LaterIdle
    /\ facilities_df = <<>>
    /\ companies_df = <<>>
    /\ hubspot_facilities = <<>>
    /\ hubspot_companies = <<>>
    /\ raised = ""
    /\ contacts_df \in {Unmatched(t) : t \in SeqsUpTo(ContactRows, MaxLooked)}
    /\ hubspot_contacts \in {Exported(t) : t \in SeqsUpTo(HubContactRows, MaxIndexed)}

exceptIndex ==
    <<run, normVars, importVars, assocVars, changeVars, facilities_df, companies_df,
      hubVars, raised, laterVars>>

\* process_contacts.py lines 90-97, one row
BuildDhcLookup ==
    /\ pc = "buildDhc"
    /\ ~LoopDone(hubspot_contacts, idx)
    /\ LET row == hubspot_contacts[idx + 1]
       IN  dhcLookup' = IF DhcKey(row) # <<>>
                        THEN Put(dhcLookup, DhcKey(row)[1], RecordIdText(row))
                        ELSE dhcLookup
    /\ idx' = idx + 1
    /\ UNCHANGED <<exceptIndex, pc, contacts_df, emailLookup>>

\* process_contacts.py lines 102-106, one row
LookUpDhcId ==
    /\ pc = "matchDhc"
    /\ ~LoopDone(contacts_df, idx)
    /\ LET probe == DhcProbe(contacts_df[idx + 1]["DHC ID"])
       IN  contacts_df' =
              IF probe # <<>> /\ probe[1] \in DOMAIN dhcLookup
              THEN [contacts_df EXCEPT ![idx + 1] = SetRecordId(@, dhcLookup[probe[1]])]
              ELSE contacts_df
    /\ idx' = idx + 1
    /\ UNCHANGED <<exceptIndex, pc, dhcLookup, emailLookup>>

\* process_contacts.py lines 113-117, one row
BuildEmailLookup ==
    /\ pc = "buildEmail"
    /\ ~LoopDone(hubspot_contacts, idx)
    /\ LET row == hubspot_contacts[idx + 1]
       IN  emailLookup' = IF EmailKey(row) # <<>>
                          THEN Put(emailLookup, EmailKey(row)[1], RecordIdText(row))
                          ELSE emailLookup
    /\ idx' = idx + 1
    /\ UNCHANGED <<exceptIndex, pc, contacts_df, dhcLookup>>

\* process_contacts.py lines 122-128, one row
LookUpEmail ==
    /\ pc = "matchEmail"
    /\ ~LoopDone(contacts_df, idx)
    /\ LET email == EmailText(contacts_df[idx + 1]["Email"])
       IN  contacts_df' =
              IF /\ contacts_df[idx + 1]["Record ID"] = StrCell(<<>>)
                 /\ UsableEmail(email)
                 /\ email \in DOMAIN emailLookup
              THEN [contacts_df EXCEPT ![idx + 1] = SetRecordId(@, emailLookup[email])]
              ELSE contacts_df
    /\ idx' = idx + 1
    /\ UNCHANGED <<exceptIndex, pc, dhcLookup, emailLookup>>

\* a loop ends and the next statement runs (lines 99-102, 108-113, 119-122,
\* 130-142)
EndLoop ==
    /\ pc \in {"buildDhc", "matchDhc", "buildEmail", "matchEmail"}
    /\ LoopDone(LoopRows, idx)
    /\ pc' = CASE pc = "buildDhc" -> "matchDhc"
               [] pc = "matchDhc" -> "buildEmail"
               [] pc = "buildEmail" -> "matchEmail"
               [] OTHER -> "contactsSaved"
    /\ idx' = 0
    /\ UNCHANGED <<exceptIndex, contacts_df, dhcLookup, emailLookup>>

NextIndex ==
    \/ BuildDhcLookup
    \/ LookUpDhcId
    \/ BuildEmailLookup
    \/ LookUpEmail
    \/ EndLoop

SpecIndex == InitIndex /\ [][NextIndex]_vars

(***************************************************************************)
(* Properties of the lookups (SpecIndex).                                  *)
(***************************************************************************)
\* C22: each lookup is built from the whole export before the first contact
\* is looked up in it, and no step of a lookup loop adds, removes or changes
\* an entry: while contacts are looked up by DHC ID the DHC ID dict is the
\* dict of the whole export and stays as it is from then on, and the same
\* holds for the Email dict while contacts are looked up by Email.
C22_IndexCompleteAndFrozen ==
    [][/\ pc = "matchDhc" => dhcLookup = dhc_to_record_id(hubspot_contacts)
       /\ pc \in {"matchDhc", "buildEmail", "matchEmail"} => dhcLookup' = dhcLookup
       /\ pc = "matchEmail" =>
            /\ emailLookup = email_to_record_id(hubspot_contacts)
            /\ emailLookup' = emailLookup]_vars

\* the export has two records with usable keys, both dicts hold entries, and
\* a contact has been given its Record ID from the Email dict
C22_Witness ==
    /\ pc = "matchEmail"
    /\ idx = 1
    /\ Len(hubspot_contacts) = 2
    /\ DOMAIN dhcLookup # {}
    /\ Cardinality(DOMAIN emailLookup) = 1
    /\ EmailKey(hubspot_contacts[1]) # <<>> /\ EmailKey(hubspot_contacts[2]) # <<>>
    /\ contacts_df[1]["Record ID"] # StrCell(<<>>)
    /\ DhcProbe(contacts_df[1]["DHC ID"]) = <<>>


(***************************************************************************)
(* Frame of the change detection (SpecImport).                             *)
(***************************************************************************)
\* C23: change detection leaves its inputs as they were: the step that
\* detects the changed facilities does not change the HubSpot export it was
\* given.
C23_InputsNotMutated ==
    [][pc = "split" /\ pc' = "detected" => hubspot' = hubspot]_vars


(***************************************************************************)
(* SpecExtract: the facilities and the companies are extracted from        *)
(* MasterORG.csv (process_all_data_complete.py lines 116-232).  Of the     *)
(* formatted columns the model keeps the keys and the columns the filters  *)
(* read.                                                                   *)
(***************************************************************************)
MaxMaster == 3    \* rows of MasterORG.csv

SkilledNursing == StrCell(<<"Skilled Nursing Facility">>)
AssistedLiving == StrCell(<<"Assisted Living Facility">>)
Active == StrCell(<<"Active">>)

\* get_valid_us_states
ValidStates ==
    {StrCell(<<a>>) : a \in
        {"AL", "AK", "AZ", "AR", "CA", "CO", "CT", "DE", "FL", "GA",
         "HI", "ID", "IL", "IN", "IA", "KS", "KY", "LA", "ME", "MD",
         "MA", "MI", "MN", "MS", "MO", "MT", "NE", "NV", "NH", "NJ",
         "NM", "NY", "NC", "ND", "OH", "OK", "OR", "PA", "RI", "SC",
         "SD", "TN", "TX", "UT", "VT", "VA", "WA", "WV", "WI", "WY",
         "DC"}}

\* lines 121-125 and 187-191: the active SNF and ALF rows
ActiveFacilities(master) ==
    SelectSeq(master, LAMBDA r : /\ r["Facility subtype"] \in {SkilledNursing, AssistedLiving}
                                 /\ r["Facility status"] = Active)

\* process_facilities_from_masterorg, lines 121-161
FacilitiesFromMasterorg(master) ==
    LET facilities == ActiveFacilities(master)
        snf == SelectSeq(facilities, LAMBDA r : /\ r["Facility subtype"] = SkilledNursing
                                                /\ NotBlank(r["Provider number"]))
        alf == SelectSeq(facilities, LAMBDA r : r["Facility subtype"] = AssistedLiving)
        kept == SelectSeq(snf \o alf, LAMBDA r : r["State"] \in ValidStates)
    IN  [i \in 1..Len(kept) |->
            ("CCN" :> FillNa(kept[i]["Provider number"]))
            @@ ("Facility Type" :> IF kept[i]["Facility subtype"] = SkilledNursing
                                   THEN StrCell(<<"S", "N", "F">>)
                                   ELSE StrCell(<<"A", "L", "F">>))
            @@ ("State" :> kept[i]["State"])
            @@ ("DHC ID" :> kept[i]["Facility definitive ID"])]

\* process_companies_from_masterorg, lines 187-217
CompaniesFromMasterorg(master) ==
    LET facilities == ActiveFacilities(master)
        network_ids == {facilities[i]["Network ID"].n :
                          i \in {j \in 1..Len(facilities) : ~IsNa(facilities[j]["Network ID"])}}
        companies == SelectSeq(master, LAMBDA r : /\ r["Facility definitive ID"].n \in network_ids
                                                  /\ r["State"] \in ValidStates)
    IN  [i \in 1..Len(companies) |->
            ("DHC ID" :> companies[i]["Facility definitive ID"])
            @@ ("State/Region" :> companies[i]["State"])]

\* rows of MasterORG.csv: facilities and other organizations, active in a
\* state, closed, or active outside the states; only a nursing facility has
\* a Provider number
MasterRows ==
    {("Facility subtype" :> tp[1]) @@ ("Provider number" :> tp[2])
        @@ ("Facility status" :> ss[1]) @@ ("State" :> ss[2])
        @@ ("Facility definitive ID" :> IntCell(d)) @@ ("Network ID" :> n) :
        tp \in {<<SkilledNursing, NaN>>, <<SkilledNursing, StrCell(<<"1">>)>>,
                <<AssistedLiving, NaN>>, <<StrCell(<<"Health System">>), NaN>>},
        ss \in {<<Active, StrCell(<<"OH">>)>>, <<StrCell(<<"Closed">>), StrCell(<<"OH">>)>>,
                <<Active, StrCell(<<"PR">>)>>},
        d \in {7, 8},
        n \in {NaN, FloatCell(8)}}

InitExtract ==
    /\ pc = "masterLoaded"
    /\ run = 1
    /\ NormIdle
    /\ ImportIdle
    /\ MatchIdle
    /\ AssocIdle
    /\ ChangesIdle
    /\ IndexIdle
    /\ PhoneIdle
    /\ SummaryIdle
    /\ BuiltIdle
    /\ master_df \in SeqsUpTo(MasterRows, MaxMaster)

exceptExtract ==
    <<run, normVars, importVars, assocVars, changeVars, indexVars, contacts_df, hubVars,
      raised, phoneVars, summaryVars>>

\* line 1227
process_facilities_from_masterorg ==
    /\ pc = "masterLoaded"
    /\ facilities_df' = FacilitiesFromMasterorg(master_df)
    /\ pc' = "facilitiesExtracted"
    /\ UNCHANGED <<exceptExtract, master_df, builtVars, companies_df>>

\* line 1230
process_companies_from_masterorg ==
    /\ pc = "facilitiesExtracted"
    /\ companies_df' = CompaniesFromMasterorg(master_df)
    /\ pc' = "extracted"
    /\ UNCHANGED <<exceptExtract, master_df, builtVars, facilities_df>>

\* process_associations.py lines 27-41 and process_associations_optimized.py
\* lines 27-43: the active facilities, the nursing facilities with a
\* Provider number first
AssociatedFacilities(master) ==
    LET facilities == ActiveFacilities(master)
    IN  SelectSeq(facilities, LAMBDA r : /\ r["Facility subtype"] = SkilledNursing
                                         /\ NotBlank(r["Provider number"]))
        \o SelectSeq(facilities, LAMBDA r : r["Facility subtype"] = AssistedLiving)

RECURSIVE Concat(_)
Concat(tables) == IF tables = <<>> THEN <<>> ELSE Head(tables) \o Concat(Tail(tables))

\* process_associations.py lines 43-74: one association for every facility
\* whose Network ID is the Facility definitive ID of a row, with the first
\* such row
process_facility_company_associations ==
    /\ pc = "masterLoaded"
    /\ LET facilities == AssociatedFacilities(master_df)
           Company(f) == SelectSeq(master_df, LAMBDA r :
                            r["Facility definitive ID"].n = f["Network ID"].n)
           Rows(f) == IF NotBlank(f["Network ID"]) /\ Company(f) # <<>>
                      THEN <<("Facility DHC ID" :> f["Facility definitive ID"])
                             @@ ("Company DHC ID" :> Company(f)[1]["Facility definitive ID"])>>
                      ELSE <<>>
       IN  associations_df' = Concat([i \in 1..Len(facilities) |-> Rows(facilities[i])])
    /\ pc' = "associationsBuilt"
    /\ UNCHANGED <<exceptExtract, master_df, facilities_df, companies_df, associations_optimized>>

\* process_associations_optimized.py lines 45-71, on the same MasterORG.csv:
\* the inner merge of the facilities with the rows whose Facility definitive
\* ID is a Network ID of a facility
process_facility_company_associations_optimized ==
    /\ pc = "associationsBuilt"
    /\ LET facilities == AssociatedFacilities(master_df)
           network_ids == {facilities[i]["Network ID"].n :
                             i \in {j \in 1..Len(facilities) : ~IsNa(facilities[j]["Network ID"])}}
           companies == SelectSeq(master_df, LAMBDA r : r["Facility definitive ID"].n \in network_ids)
           Rows(f) == LET hits == SelectSeq(companies, LAMBDA r :
                                    /\ ~IsNa(f["Network ID"])
                                    /\ r["Facility definitive ID"].n = f["Network ID"].n)
                      IN  [j \in 1..Len(hits) |->
                              ("Facility DHC ID" :> f["Facility definitive ID"])
                              @@ ("Company DHC ID" :> hits[j]["Facility definitive ID"])]
       IN  associations_optimized' = Concat([i \in 1..Len(facilities) |-> Rows(facilities[i])])
    /\ pc' = "associationsBuiltTwice"
    /\ UNCHANGED <<exceptExtract, master_df, facilities_df, companies_df, associations_df>>

NextExtract ==
    \/ process_facilities_from_masterorg
    \/ process_companies_from_masterorg
    \/ process_facility_company_associations
    \/ process_facility_company_associations_optimized

SpecExtract == InitExtract /\ [][NextExtract]_vars

\* C24: after the extraction no two facilities have the same non-empty CCN
\* and no two companies have the same DHC ID.
C24_ExtractionDedup ==
    pc = "extracted" =>
        /\ \A i, j \in 1..Len(facilities_df) :
              (NotBlank(facilities_df[i]["CCN"]) /\ facilities_df[i]["CCN"] = facilities_df[j]["CCN"])
                  => i = j
        /\ \A i, j \in 1..Len(companies_df) :
              companies_df[i]["DHC ID"] = companies_df[j]["DHC ID"] => i = j


(***************************************************************************)
(* SpecPhone: format_phone_number, as each script defines it, applied to   *)
(* one cell.                                                               *)
(***************************************************************************)
\* ''.join(filter(str.isdigit, text))
DigitsOf(t) == SelectSeq(t, LAMBDA ch : ch \in Range(DigitChars))

\* text[a:b] of Python for 0 <= a <= b
Slice(t, a, b) == SubSeq(t, a + 1, IF b < Len(t) THEN b ELSE Len(t))

\* f"({x}) {y}-{z}"
PhoneFormat(x, y, z) == <<"(">> \o x \o <<")", " ">> \o y \o <<"-">> \o z

\* format_phone_number of process_all_data_complete.py (lines 23-37) and of
\* process_definitive_data.py (lines 18-32, the same text)
format_phone_number(c) ==
    IF IsNa(c) \/ c = StrCell(<<>>) \/ Strip(AsStr(c)) = <<>>
    THEN <<>>
    ELSE LET digits == DigitsOf(AsStr(c))
         IN  CASE Len(digits) = 10 ->
                    PhoneFormat(Slice(digits, 0, 3), Slice(digits, 3, 6), Slice(digits, 6, Len(digits)))
               [] Len(digits) = 11 /\ digits[1] = "1" ->
                    PhoneFormat(Slice(digits, 1, 4), Slice(digits, 4, 7), Slice(digits, 7, Len(digits)))
               [] OTHER -> Strip(AsStr(c))

\* format_phone_number of process_all_data.py (lines 21-35) and of
\* process_masterorg_only.py (lines 18-32, the same text)
format_phone_number_all_data(c) ==
    IF IsNa(c) \/ c = StrCell(<<>>) \/ Strip(AsStr(c)) = <<>>
    THEN <<>>
    ELSE LET digits == DigitsOf(AsStr(c))
         IN  CASE Len(digits) = 10 ->
                    PhoneFormat(Slice(digits, 0, 3), Slice(digits, 4, 7), Slice(digits, 7, Len(digits)))
               [] Len(digits) = 11 /\ digits[1] = "1" ->
                    PhoneFormat(Slice(digits, 1, 4), Slice(digits, 4, 7), Slice(digits, 7, Len(digits)))
               [] OTHER -> Strip(AsStr(c))

\* the scripts that define format_phone_number
PhoneCopies ==
    {"process_all_data.py", "process_masterorg_only.py",
     "process_all_data_complete.py", "process_definitive_data.py"}

\* phone cells: a number written with and without punctuation, with and
\* without the country code, one digit short, as an integer, and no number
PhoneTexts ==
    {prefix \o a \o sep1 \o <<"5", "6", "7">> \o sep2 \o last \o suffix :
        prefix \in {<<>>, <<"1">>, <<"+", "1", " ">>, <<"(">>},
        a \in {<<"2", "3", "4">>, <<"5", "0", "5">>},
        sep1 \in {<<>>, <<")", " ">>, <<"-">>, <<".">>},
        sep2 \in {<<>>, <<"-">>},
        last \in {<<"8", "9", "0", "1">>, <<"8", "9", "0">>},
        suffix \in {<<>>, <<" ">>}}

PhoneCells ==
    {StrCell(t) : t \in PhoneTexts \cup {<<>>, <<" ">>}} \cup {NaN, IntCell(1234567890)}

InitPhone ==
    /\ pc = "phoneRead"
    /\ run = 1
    /\ NormIdle
    /\ ImportIdle
    /\ MatchIdle
    /\ AssocIdle
    /\ ChangesIdle
    /\ IndexIdle
    /\ ExtractIdle
    /\ SummaryIdle
    /\ phone \in PhoneCells
    /\ phoneOut = <<>>

\* each script applies its own copy to the cell
FormatPhoneNumber ==
    /\ pc = "phoneRead"
    /\ phoneOut' = [f \in PhoneCopies |->
                      IF f \in {"process_all_data.py", "process_masterorg_only.py"}
                      THEN format_phone_number_all_data(phone)
                      ELSE format_phone_number(phone)]
    /\ pc' = "phoneFormatted"
    /\ UNCHANGED <<run, normVars, importVars, matchVars, assocVars, changeVars, indexVars,
                   extractVars, summaryVars, phone>>

NextPhone == FormatPhoneNumber

SpecPhone == InitPhone /\ [][NextPhone]_vars

\* the ten digits of a number, written (123) 456-7890
TenDigitFormat(d) ==
    <<"(", d[1], d[2], d[3], ")", " ", d[4], d[5], d[6], "-", d[7], d[8], d[9], d[10]>>

\* C25: every copy of format_phone_number writes a cell with exactly ten
\* digits as (d1d2d3) d4d5d6-d7d8d9d10, a cell with eleven digits that start
\* with 1 in the same way from its last ten digits, and all copies return
\* the same text for the same cell.
C25_PhoneFormat ==
    pc = "phoneFormatted" =>
        LET digits == DigitsOf(AsStr(phone))
        IN  \A f \in PhoneCopies :
              /\ (~IsNa(phone) /\ Len(digits) = 10) => phoneOut[f] = TenDigitFormat(digits)
              /\ (~IsNa(phone) /\ Len(digits) = 11 /\ digits[1] = "1")
                    => phoneOut[f] = TenDigitFormat(Tail(digits))
              /\ \A g \in PhoneCopies : phoneOut[f] = phoneOut[g]


(***************************************************************************)
(* Applying the association diff (SpecAssoc).                              *)
(***************************************************************************)
\* C26: removing the remove output from the current edges and adding the add
\* output gives the desired edges.
C26_DiffReachesDesired ==
    pc \in {"compared", "changes"} =>
        (CurrentEdges \ EdgesOf(remove_df)) \cup EdgesOf(add_df) = DesiredEdges


(***************************************************************************)
(* The two contact resolvers (SpecMatch).                                  *)
(***************************************************************************)
\* the number of the record a Record ID cell names, <<>> when it names none
RecordOf(c) == ToNumeric(c)

\* C27: on every contact table and every export the merges of
\* process_all_data_complete.py end without an exception and give every
\* contact the record that the loops of process_contacts.py give it, or none
\* when the loops give it none.
C27_MergeEqualsLoop ==
    [][(pc = "loaded" /\ pc' \in {"contactsMerged", "mergeFailed"}) =>
          /\ pc' = "contactsMerged"
          /\ \A i \in 1..Len(contacts_df) :
                RecordOf(contacts_df'[i]["Record ID"]) =
                RecordOf(MatchContactsByEmail(MatchByDhcId(contacts_df, hubspot_contacts),
                                              hubspot_contacts)[i]["Record ID"])]_vars


(***************************************************************************)
(* The two builders of the Facility-Company associations (SpecExtract).    *)
(***************************************************************************)
\* the associations of a table as pairs of DHC IDs
BuiltEdges(df) == {<<df[i]["Facility DHC ID"].n, df[i]["Company DHC ID"].n>> : i \in 1..Len(df)}

\* C28: on every MasterORG table the loop of process_associations.py and the
\* merge of process_associations_optimized.py give the same set of
\* (Facility DHC ID, Company DHC ID) associations, and each table holds every
\* association once.
C28_BuildersEquivalent ==
    pc = "associationsBuiltTwice" =>
        /\ BuiltEdges(associations_df) = BuiltEdges(associations_optimized)
        /\ Len(associations_df) = Cardinality(BuiltEdges(associations_df))
        /\ Len(associations_optimized) = Cardinality(BuiltEdges(associations_optimized))


(***************************************************************************)
(* The two facility resolvers (SpecMatch).                                 *)
(***************************************************************************)
\* both tables give every row the same record, or none
SameRecords(a, b) ==
    \A i \in 1..Len(a) : RecordOf(a[i]["Record ID"]) = RecordOf(b[i]["Record ID"])

\* C29: on every facility table and every export the lookup by CCN of
\* process_all_data.py and the lookup by DHC ID of
\* process_all_data_complete.py give every facility the same Record ID, or
\* both give it none.
C29_SameFacilityResolution ==
    [][/\ (pc = "loaded" /\ pc' = "facilities") =>
             SameRecords(facilities_df', MatchByDhcId(facilities_df, hubspot_facilities))
       /\ (pc = "loaded" /\ pc' = "facilitiesByDhc") =>
             SameRecords(facilities_df', MatchFacilitiesByCcn(facilities_df, hubspot_facilities))]_vars


(***************************************************************************)
(* SpecSummary: main of process_association_changes.py on the three        *)
(* association types, from the exports and the desired tables to the       *)
(* printed summary.                                                        *)
(***************************************************************************)
MaxPacked == 2     \* rows of an export with packed associations
MaxWanted == 1     \* rows of a desired association table

\* process_association_changes.py lines 84-125: the rows of a desired table
\* with both Record IDs, as integers
NewAssociations(df, a, b) ==
    LET kept == SelectSeq(df, LAMBDA r : NotBlank(r[a]) /\ NotBlank(r[b]))
    IN  [i \in 1..Len(kept) |-> AssociationRow(AsInt(kept[i][a]), AsInt(kept[i][b]))]

PackedCells == {NaN, StrCell(<<"5">>), StrCell(<<"5", ";", "6">>)}

WantedPairs(a, b) == {(a :> IntCell(x)) @@ (b :> y) : x \in {1, 2}, y \in {StrCell(<<>>), IntCell(5)}}

InitSummary ==
    /\ pc = "summaryStart"
    /\ run = 1
    /\ NormIdle
    /\ ImportIdle
    /\ IndexIdle
    /\ ExtractIdle
    /\ PhoneIdle
    /\ facilities_df = <<>>
    /\ companies_df = <<>>
    /\ contacts_df = <<>>
    /\ hubspot_companies = <<>>
    /\ raised = ""
    /\ current_df = <<>>
    /\ new_df = <<>>
    /\ add_df = <<>>
    /\ remove_df = <<>>
    /\ exportFound = TRUE
    /\ association_changes = <<>>
    /\ summary = <<>>
    /\ hubspot_facilities \in
          {Exported(t) : t \in SeqsUpTo({("Associated Company IDs" :> c) : c \in PackedCells},
                                        MaxPacked)}
    /\ hubspot_contacts \in
          {Exported(t) : t \in SeqsUpTo(
              {("Associated Facility IDs" :> f) @@ ("Associated Company IDs" :> c) :
                  f \in PackedCells, c \in {NaN, StrCell(<<"5">>)}}, MaxPacked)}
    /\ facility_company_df \in SeqsUpTo(WantedPairs("Facility Record ID", "Company Record ID"), MaxWanted)
    /\ contact_facility_df \in SeqsUpTo(WantedPairs("Contact Record ID", "Facility Record ID"), MaxWanted)
    /\ contact_company_df \in SeqsUpTo(WantedPairs("Contact Record ID", "Company Record ID"), MaxWanted)

\* process_association_changes.py lines 152-239.  A current table made from
\* no rows has no columns and compare_associations raises KeyError (line
\* 134); otherwise the six tables are saved and the summary is printed.
association_changes_main ==
    /\ pc = "summaryStart"
    /\ LET current == [t \in {"facility_company", "contact_facility", "contact_company"} |->
                CASE t = "facility_company" ->
                        split_semicolon_associations(hubspot_facilities, "Associated Company IDs")
                  [] t = "contact_facility" ->
                        split_semicolon_associations(hubspot_contacts, "Associated Facility IDs")
                  [] OTHER ->
                        split_semicolon_associations(hubspot_contacts, "Associated Company IDs")]
           new == [t \in {"facility_company", "contact_facility", "contact_company"} |->
                CASE t = "facility_company" ->
                        NewAssociations(facility_company_df, "Facility Record ID", "Company Record ID")
                  [] t = "contact_facility" ->
                        NewAssociations(contact_facility_df, "Contact Record ID", "Facility Record ID")
                  [] OTHER ->
                        NewAssociations(contact_company_df, "Contact Record ID", "Company Record ID")]
           changes == [t \in DOMAIN current |->
                          [add |-> ToAdd(current[t], new[t]), remove |-> ToRemove(current[t], new[t])]]
       IN  IF \E t \in DOMAIN current : current[t] = <<>>
           THEN /\ raised' = "KeyError"
                /\ pc' = "summaryFailed"
                /\ UNCHANGED <<association_changes, summary>>
           ELSE /\ association_changes' = changes
                /\ summary' =
                      [remove |-> Len(changes["facility_company"].remove)
                                  + Len(changes["contact_facility"].remove)
                                  + Len(changes["contact_company"].remove),
                       add |-> Len(changes["facility_company"].add)
                               + Len(changes["contact_facility"].remove)
                               + Len(changes["contact_company"].add)]
                /\ pc' = "summarized"
                /\ UNCHANGED raised
    /\ UNCHANGED <<run, normVars, importVars, indexVars, extractVars, phoneVars,
                   facilities_df, companies_df, contacts_df, hubVars, assocVars,
                   contact_facility_df, contact_company_df, exportFound>>

NextSummary == association_changes_main

SpecSummary == InitSummary /\ [][NextSummary]_vars

\* C30: in the printed summary 'Total to remove' is the number of rows of the
\* three remove tables and 'Total to add' is the number of rows of the three
\* add tables.
C30_TotalsMatchOutputs ==
    pc = "summarized" =>
        /\ summary.remove = Len(association_changes["facility_company"].remove)
                            + Len(association_changes["contact_facility"].remove)
                            + Len(association_changes["contact_company"].remove)
        /\ summary.add = Len(association_changes["facility_company"].add)
                         + Len(association_changes["contact_facility"].add)
                         + Len(association_changes["contact_company"].add)

=============================================================================
